---- MODULE Spec2Model ----
(***************************************************************************)
(* Model of the agent loop of wjh::chat::client::OpenRouterClient          *)
(* (src/src/wjh/chat/client/OpenRouterClient.cpp): do_send_message, the    *)
(* response codec and the four tool executors behind dispatch_tool.        *)
(*                                                                         *)
(* Strings are sequences of tokens.  File contents, old_string, new_string *)
(* and confirmation lines are sequences of one-character tokens; the fixed *)
(* texts of the program are single tokens.                                 *)
(***************************************************************************)
EXTENDS Integers, Sequences, FiniteSets, TLC

VARIABLES
    pc,         \* position of do_send_message: idle, loop, awaiting, tools, done, hung
    i,          \* the for-loop counter of do_send_message
    messages,   \* the loop-local transcript (nlohmann::json array)
    resp,       \* the response of the last round trip
    tc_idx,     \* index of the tool call being processed in resp's tool_calls
    fs,         \* file system: path -> [exists, data]
    dirs,       \* existing directories
    tool_log,   \* one entry per dispatched tool call, in execution order
    requests,   \* number of requests handed to send_api_request
    result,     \* what do_send_message returned (or how it ended)
    config,     \* OpenRouterClientConfig (model, max_tokens, temperature,
                \* system_prompt)
    conversation, \* the caller's Conversation
    request,    \* the request built last, by do_send_message or build_request
    tools       \* the loop-local const tools of do_send_message

vars == <<pc, i, messages, resp, tc_idx, fs, dirs, tool_log, requests, result,
          config, conversation, request, tools>>

(***************************************************************************)
(* Bounds of the model.                                                    *)
(***************************************************************************)
MaxLen == 4          \* longest file content explored by ToolSpec
MaxOld == 2          \* longest old_string explored by ToolSpec
ManyChunks == 26     \* full fgets buffers, or long lines, of a large output

(***************************************************************************)
(* Program constants.                                                      *)
(***************************************************************************)
MaxIterations == 20      \* for (int i = 0; i < 20; ++i)
TruncLimit == 100000     \* result.size() > 100'000
IntMax == 2147483647     \* std::numeric_limits<int>::max()
npos == -1               \* std::string::npos, "no position"

None == [ty |-> "none"]

(***************************************************************************)
(* JSON values.                                                            *)
(***************************************************************************)
JNull == [ty |-> "null"]
JStr(s) == [ty |-> "string", v |-> s]
JInt(n) == [ty |-> "int", v |-> n]
JArr(a) == [ty |-> "array", v |-> a]
JObj(o) == [ty |-> "object", v |-> o]
EmptyObj == JObj([k \in {} |-> JNull])

\* json::contains(key): true only for an object holding the key
Contains(j, key) == j.ty = "object" /\ key \in DOMAIN j.v

\* json::empty(): null is empty, arrays and objects by size, scalars never
JEmpty(j) ==
    CASE j.ty = "null" -> TRUE
      [] j.ty = "array" -> Len(j.v) = 0
      [] j.ty = "object" -> DOMAIN j.v = {}
      [] OTHER -> FALSE

(***************************************************************************)
(* String helpers.                                                         *)
(***************************************************************************)
Min(S) == CHOOSE x \in S : \A y \in S : x <= y

Last(seq) == seq[Len(seq)]

DigitTok == <<"0", "1", "2", "3", "4", "5", "6", "7", "8", "9">>

RECURSIVE ToStr(_)
\* std::to_string / {} formatting of a non-negative integer
ToStr(n) == IF n < 10 THEN <<DigitTok[n + 1]>>
            ELSE ToStr(n \div 10) \o <<DigitTok[(n % 10) + 1]>>

\* "{:>6}": right-justified to width 6, never cut
PadLeft6(s) == [k \in 1..(IF Len(s) < 6 THEN 6 - Len(s) ELSE 0) |-> " "] \o s

\* size in characters of a token: a full fgets buffer is one token
TokSize(t) == IF t = "<4095 bytes>" THEN 4095 ELSE 1

\* std::string::size(): the sum of the sizes of the tokens
Size(s) ==
    Len(s) + (TokSize("<4095 bytes>") - 1)
                 * Cardinality({ k \in 1..Len(s) : s[k] = "<4095 bytes>" })

\* std::string::find(what, pos): first position >= pos, 0-indexed, or npos
Find(contents, what, pos) ==
    LET cands == {p \in pos..(Len(contents) - Len(what)) :
                     SubSeq(contents, p + 1, p + Len(what)) = what}
    IN IF cands = {} THEN npos ELSE Min(cands)

\* std::string::replace(pos, n, with)
Replace_Inserts(contents, pos, n, with) ==
    SubSeq(contents, 1, pos) \o with \o SubSeq(contents, pos + 1, Len(contents))

Replace(contents, pos, n, with) ==
    SubSeq(contents, 1, pos) \o with \o SubSeq(contents, pos + n + 1, Len(contents))

RECURSIVE Lines(_, _, _)
\* the lines successive std::getline calls return for a file
Lines(data, k, cur) ==
    IF k > Len(data) THEN (IF cur = <<>> THEN <<>> ELSE <<cur>>)
    ELSE IF data[k] = "\n" THEN <<cur>> \o Lines(data, k + 1, <<>>)
    ELSE Lines(data, k + 1, Append(cur, data[k]))

(***************************************************************************)
(* File system.                                                            *)
(***************************************************************************)
NoFile == [exists |-> FALSE, data |-> <<>>]
File(d) == [exists |-> TRUE, data |-> d]

PathF == <<"", "f">>       \* "f": no parent directory
PathG == <<"d", "g">>      \* "d/g": parent directory "d"
Paths == {PathF, PathG}

\* std::filesystem::path(path).parent_path()
ParentPath(path) == path[1]

PathStr(path) == IF path[1] = "" THEN <<path[2]>> ELSE <<path[1], "/", path[2]>>

\* std::ifstream file(path); file.is_open()
CanOpenForRead(f, path) == f[path].exists

\* std::ofstream file(path); file.is_open()
CanOpenForWrite(d, path, io) ==
    io.open_ok /\ (ParentPath(path) = "" \/ ParentPath(path) \in d)

(***************************************************************************)
(* Results of an executor: status ok (it returned out), throw (a           *)
(* nlohmann::json exception left it), crash (the process died) or hang (it *)
(* never returns); read is the number of confirmation lines it consumed,   *)
(* started the shell commands it started.                                  *)
(***************************************************************************)
Ret(out, f, d, read, started) ==
    [status |-> "ok", out |-> out, fs |-> f, dirs |-> d, read |-> read,
     started |-> started]

Stop(status, f, d, read) ==
    [status |-> status, out |-> <<>>, fs |-> f, dirs |-> d, read |-> read,
     started |-> <<>>]

\* answer.empty() or (answer[0] != 'y' and answer[0] != 'Y')
Denied_AnyNonEmpty(answer) == answer = <<>>

Denied_LowercaseOnly(answer) == answer = <<>> \/ answer[1] # "y"

Denied(answer) ==
    answer = <<>> \/ (answer[1] # "y" /\ answer[1] # "Y")

\* const json::operator[](key) followed by get<std::string>() / get<int>():
\* throws on a non-object (type_error.305) and on a value of the wrong type
\* (type_error.302); on a missing key the behaviour is undefined
Access(args, key, ty) ==
    IF args.ty # "object" THEN "throw"
    ELSE IF key \notin DOMAIN args.v THEN "ub"
    ELSE IF args.v[key].ty # ty THEN "throw"
    ELSE "ok"

\* first failing access among the required ones, in program order
RECURSIVE FirstFailure(_, _)
FirstFailure(args, keys) ==
    IF keys = <<>> THEN "ok"
    ELSE IF Access(args, Head(keys), "string") # "ok"
         THEN Access(args, Head(keys), "string")
         ELSE FirstFailure(args, Tail(keys))

\* outcome of undefined behaviour: the assertion of a debug build aborts the
\* process, other builds read through the end iterator and crash or throw
UBOutcomes == {"crash", "throw"}

Fail(kind, env, f, d) ==
    Stop(IF kind = "ub" THEN env.ub ELSE "throw", f, d, 0)

(***************************************************************************)
(* execute_bash                                                            *)
(***************************************************************************)
\* what a shell command does to the file system once it runs
ShellEffect(command, f) ==
    IF command = <<"rm f">> THEN [f EXCEPT ![PathF] = NoFile] ELSE f

RECURSIVE BashLoop(_, _, _)
\* while (fgets(...)) { result += buffer; if (result.size() > 100'000) ... }
BashLoop(chunks, k, res) ==
    IF k > Len(chunks) THEN res
    ELSE LET r == Append(res, chunks[k])
         IN IF Size(r) > TruncLimit
            THEN Append(r, "\n... [truncated at 100KB]")
            ELSE BashLoop(chunks, k + 1, r)

ExecuteBash_NoExitWhenTruncated(command, env, f, d) ==
    IF Denied(env.answer)
    THEN Ret(<<"Command skipped by user">>, f, d, 1, <<>>)
    ELSE IF ~env.run.popen_ok
    THEN Ret(<<"Error: failed to execute command">>, f, d, 1, <<>>)
    ELSE IF Size(env.run.chunks) > TruncLimit
    THEN Ret(BashLoop(env.run.chunks, 1, <<>>), ShellEffect(command, f), d, 1,
             <<command>>)
    ELSE Ret(BashLoop(env.run.chunks, 1, <<>>)
                 \o <<"\n[exit code: ">> \o ToStr(env.run.exit) \o <<"]">>,
             ShellEffect(command, f), d, 1, <<command>>)

ExecuteBash(command, env, f, d) ==
    IF Denied(env.answer)
    THEN Ret(<<"Command skipped by user">>, f, d, 1, <<>>)
    ELSE IF ~env.run.popen_ok
    THEN Ret(<<"Error: failed to execute command">>, f, d, 1, <<>>)
    ELSE Ret(BashLoop(env.run.chunks, 1, <<>>)
                 \o <<"\n[exit code: ">> \o ToStr(env.run.exit) \o <<"]">>,
             ShellEffect(command, f), d, 1, <<command>>)

(***************************************************************************)
(* execute_read_file                                                       *)
(***************************************************************************)
RECURSIVE ReadLoop(_, _, _, _, _, _)
\* while (std::getline(file, line)) { ... }
\* std::format("{:>6}\t{}\n", line_num, line)
FormatLine_Unpadded(line_num, line) ==
    ToStr(line_num) \o <<"\t">> \o line \o <<"\n">>

FormatLine(line_num, line) ==
    PadLeft6(ToStr(line_num)) \o <<"\t">> \o line \o <<"\n">>

ReadLoop(lines, line_num, lines_read, offset, limit, res) ==
    IF line_num >= Len(lines) THEN res
    ELSE LET n == line_num + 1
         IN IF n < offset
            THEN ReadLoop(lines, n, lines_read, offset, limit, res)
            ELSE IF lines_read >= limit THEN res
            ELSE LET r == res \o FormatLine(n, lines[n])
                 IN IF Size(r) > TruncLimit
                    THEN Append(r, "\n... [truncated at 100KB]")
                    ELSE ReadLoop(lines, n, lines_read + 1, offset, limit, r)

\* if (result.empty()) return "File is empty or offset is past end";
ReadResult_NeverMessage(res) == res

ReadResult(res) ==
    IF res = <<>> THEN <<"File is empty or offset is past end">> ELSE res

ExecuteReadFile(args, env, f, d) ==
    IF Access(args, "file_path", "string") # "ok"
    THEN Fail(Access(args, "file_path", "string"), env, f, d)
    ELSE LET path == args.v["file_path"].v
         IN IF ~CanOpenForRead(f, path)
            THEN Ret(<<"Error: Cannot open file: ">> \o PathStr(path), f, d, 0, <<>>)
            ELSE IF Contains(args, "offset") /\ args.v["offset"].ty # "int"
            THEN Stop("throw", f, d, 0)
            ELSE IF Contains(args, "limit") /\ args.v["limit"].ty # "int"
            THEN Stop("throw", f, d, 0)
            ELSE LET offset == IF Contains(args, "offset")
                               THEN args.v["offset"].v ELSE 1
                     limit == IF Contains(args, "limit")
                              THEN args.v["limit"].v ELSE IntMax
                     res == ReadLoop(Lines(f[path].data, 1, <<>>), 0, 0,
                                     offset, limit, <<>>)
                 IN Ret(ReadResult(res), f, d, 0, <<>>)

(***************************************************************************)
(* execute_write_file                                                      *)
(***************************************************************************)
\* "Wrote " + std::to_string(content.size()) + " bytes to " + path
WroteMessage_CountsLines(path, content) ==
    <<"Wrote ">> \o ToStr(Len(Lines(content, 1, <<>>))) \o <<" bytes to ">>
        \o PathStr(path)

WroteMessage(path, content) ==
    <<"Wrote ">> \o ToStr(Size(content)) \o <<" bytes to ">> \o PathStr(path)

\* the part of execute_write_file after the confirmation
WriteApproved_Appends(path, content, env, f, d) ==
    LET parent == ParentPath(path)
        mkdir == parent # ""
        d1 == IF mkdir /\ env.io.mkdir_ok THEN d \cup {parent} ELSE d
    IN IF mkdir /\ ~env.io.mkdir_ok
       THEN Ret(<<"Error: Cannot create directory: ", parent>>, f, d, 1, <<>>)
       ELSE IF ~CanOpenForWrite(d1, path, env.io)
       THEN Ret(<<"Error: Cannot open file for writing: ">> \o PathStr(path),
                f, d1, 1, <<>>)
       ELSE IF ~env.io.write_ok
       THEN Ret(<<"Error: Write failed">>, [f EXCEPT ![path] = File(<<>>)],
                d1, 1, <<>>)
       ELSE Ret(WroteMessage(path, content),
                [f EXCEPT ![path] =
                     File((IF f[path].exists THEN f[path].data ELSE <<>>)
                              \o content)],
                d1, 1, <<>>)

WriteApproved(path, content, env, f, d) ==
    LET parent == ParentPath(path)
        mkdir == parent # ""
        d1 == IF mkdir /\ env.io.mkdir_ok THEN d \cup {parent} ELSE d
    IN IF mkdir /\ ~env.io.mkdir_ok
       THEN Ret(<<"Error: Cannot create directory: ", parent>>, f, d, 1, <<>>)
       ELSE IF ~CanOpenForWrite(d1, path, env.io)
       THEN Ret(<<"Error: Cannot open file for writing: ">> \o PathStr(path),
                f, d1, 1, <<>>)
       ELSE IF ~env.io.write_ok
       THEN Ret(<<"Error: Write failed">>, [f EXCEPT ![path] = File(<<>>)],
                d1, 1, <<>>)
       ELSE Ret(WroteMessage(path, content),
                [f EXCEPT ![path] = File(content)], d1, 1, <<>>)

ExecuteWriteFile(args, env, f, d) ==
    IF FirstFailure(args, <<"file_path", "content">>) # "ok"
    THEN Fail(FirstFailure(args, <<"file_path", "content">>), env, f, d)
    ELSE IF Denied(env.answer)
    THEN Ret(<<"Write skipped by user">>, f, d, 1, <<>>)
    ELSE WriteApproved(args.v["file_path"].v, args.v["content"].v, env, f, d)

(***************************************************************************)
(* execute_edit_file                                                       *)
(***************************************************************************)
RECURSIVE CountLoop(_, _, _, _, _)
\* while ((pos = contents.find(old_string, pos)) != npos)
\*     { ++count; found_pos = pos; pos += old_string.size(); }
\* evaluated only for a non-empty old_string (see CountLoopDiverges)
CountLoop(contents, old_string, pos, count, found_pos) ==
    LET p == Find(contents, old_string, pos)
    IN IF p = npos THEN [count |-> count, found_pos |-> found_pos]
       ELSE CountLoop(contents, old_string, p + Len(old_string), count + 1, p)

\* with an empty old_string find(old_string, pos) returns pos and pos += 0
\* leaves it there: the loop never ends
CountLoopDiverges(contents, old_string) == Len(old_string) = 0

\* the part of execute_edit_file after the confirmation
EditDenied_Truncates(path, f, d) ==
    Ret(<<"Edit skipped by user">>, [f EXCEPT ![path] = File(<<>>)], d, 1, <<>>)

EditDenied(path, f, d) == Ret(<<"Edit skipped by user">>, f, d, 1, <<>>)

EditApproved(path, contents, c, old_string, new_string, env, f, d) ==
    IF ~CanOpenForWrite(d, path, env.io)
    THEN Ret(<<"Error: Cannot write file: ">> \o PathStr(path), f, d, 1, <<>>)
    ELSE IF ~env.io.write_ok
    THEN Ret(<<"Error: Write failed">>, [f EXCEPT ![path] = File(<<>>)], d, 1, <<>>)
    ELSE Ret(<<"Applied edit to ">> \o PathStr(path),
             [f EXCEPT ![path] =
                  File(Replace(contents, c.found_pos, Len(old_string), new_string))],
             d, 1, <<>>)

ExecuteEditFile(args, env, f, d) ==
    IF FirstFailure(args, <<"file_path", "old_string", "new_string">>) # "ok"
    THEN Fail(FirstFailure(args, <<"file_path", "old_string", "new_string">>),
              env, f, d)
    ELSE LET path == args.v["file_path"].v
             old_string == args.v["old_string"].v
             new_string == args.v["new_string"].v
         IN IF ~CanOpenForRead(f, path)
            THEN Ret(<<"Error: Cannot open file: ">> \o PathStr(path), f, d, 0, <<>>)
            ELSE IF CountLoopDiverges(f[path].data, old_string)
            THEN Stop("hang", f, d, 0)
            ELSE LET contents == f[path].data
                     c == CountLoop(contents, old_string, 0, 0, npos)
                 IN IF c.count = 0
                    THEN Ret(<<"Error: old_string not found in ">> \o PathStr(path),
                             f, d, 0, <<>>)
                    ELSE IF c.count > 1
                    THEN Ret(<<"Error: old_string is not unique in ">>
                                 \o PathStr(path) \o <<" (found ">>
                                 \o ToStr(c.count) \o <<" occurrences)">>,
                             f, d, 0, <<>>)
                    ELSE IF Denied(env.answer)
                    THEN EditDenied(path, f, d)
                    ELSE EditApproved(path, contents, c, old_string, new_string,
                                      env, f, d)

(***************************************************************************)
(* dispatch_tool                                                           *)
(***************************************************************************)
DispatchTool(name, args, env, f, d) ==
    IF name = <<"bash">>
    THEN IF Access(args, "command", "string") # "ok"
         THEN Fail(Access(args, "command", "string"), env, f, d)
         ELSE ExecuteBash(args.v["command"].v, env, f, d)
    ELSE IF name = <<"read_file">> THEN ExecuteReadFile(args, env, f, d)
    ELSE IF name = <<"write_file">> THEN ExecuteWriteFile(args, env, f, d)
    ELSE IF name = <<"edit_file">> THEN ExecuteEditFile(args, env, f, d)
    ELSE Ret(<<"Error: unknown tool: ">> \o name, f, d, 0, <<>>)

(***************************************************************************)
(* Results of the client: Result<ChatResponse>, or the way the call ended  *)
(* when it did not return.                                                 *)
(***************************************************************************)
NoResult == [kind |-> "none"]
Ok(text, usage) == [kind |-> "ok", response |-> text, usage |-> usage]
Err(what) == [kind |-> "error", what |-> what]
Escaped(how, at) == [kind |-> how, at |-> at]

(***************************************************************************)
(* make_tools_json                                                         *)
(***************************************************************************)
\* {{"type", ty}, {"description", description}}
Property(ty, description) ==
    JObj([type |-> JStr(<<ty>>), description |-> JStr(<<description>>)])

\* {{"type", "function"}, {"function", {{"name", ..}, {"description", ..},
\*   {"parameters", {{"type", "object"}, {"properties", ..}, {"required", ..}}}}}}
FunctionTool(name, description, properties, required) ==
    JObj([type |-> JStr(<<"function">>),
          function |->
              JObj([name |-> JStr(<<name>>),
                    description |-> JStr(<<description>>),
                    parameters |->
                        JObj([type |-> JStr(<<"object">>),
                              properties |-> JObj(properties),
                              required |->
                                  JArr([k \in DOMAIN required |->
                                           JStr(<<required[k]>>)])])])])

bash_tool ==
    FunctionTool("bash",
        "Execute a bash command. Use this to run shell commands, compile code, run tests, and other terminal operations.",
        [command |-> Property("string", "The bash command to execute")],
        <<"command">>)

read_file_tool ==
    FunctionTool("read_file",
        "Read the contents of a file. Returns lines with line numbers. Use this instead of bash cat/head/tail.",
        [file_path |-> Property("string", "Path to the file to read"),
         offset |-> Property("integer", "1-indexed line number to start from (optional)"),
         limit |-> Property("integer", "Maximum number of lines to read (optional)")],
        <<"file_path">>)

write_file_tool ==
    FunctionTool("write_file",
        "Write content to a file. Creates parent directories if needed. Use this instead of bash echo/cat with redirects.",
        [file_path |-> Property("string", "Path to the file to write"),
         content |-> Property("string", "The content to write to the file")],
        <<"file_path", "content">>)

edit_file_tool ==
    FunctionTool("edit_file",
        "Make a targeted edit to a file by replacing an exact string. The old_string must appear exactly once in the file. Use this instead of bash sed.",
        [file_path |-> Property("string", "Path to the file to edit"),
         old_string |-> Property("string", "The exact string to find and replace (must be unique)"),
         new_string |-> Property("string", "The replacement string")],
        <<"file_path", "old_string", "new_string">>)

MakeToolsJson_EditFirst ==
    JArr(<<edit_file_tool, bash_tool, read_file_tool, write_file_tool>>)

MakeToolsJson ==
    JArr(<<bash_tool, read_file_tool, write_file_tool, edit_file_tool>>)

(***************************************************************************)
(* convert_messages_to_openai                                              *)
(***************************************************************************)
\* config_.system_prompt ? config_.system_prompt : conversation.system_prompt()
SystemPrompt_ConversationFirst(cfg, conv) ==
    IF conv.system_prompt # None THEN conv.system_prompt ELSE cfg.system_prompt

SystemPrompt(cfg, conv) ==
    IF cfg.system_prompt # None THEN cfg.system_prompt ELSE conv.system_prompt

\* to_json(msg): role and content
ToJson(msg) == JObj([role |-> JStr(msg.role), content |-> JStr(msg.content)])

ConvertMessagesToOpenai(cfg, conv) ==
    (IF SystemPrompt(cfg, conv) # None
     THEN <<JObj([role |-> JStr(<<"system">>),
                  content |-> JStr(SystemPrompt(cfg, conv).v)])>>
     ELSE <<>>)
    \o [k \in 1..Len(conv.messages) |-> ToJson(conv.messages[k])]

(***************************************************************************)
(* build_request, and the request do_send_message builds in its loop       *)
(***************************************************************************)
\* the request object: temperature is a member only when the config has one
RequestJson_LastOnly(cfg, msgs, tls) ==
    JObj([k \in {"model", "max_tokens", "messages", "tools"}
                 \cup (IF cfg.temperature # None THEN {"temperature"} ELSE {}) |->
             CASE k = "model" -> cfg.model
               [] k = "max_tokens" -> cfg.max_tokens
               [] k = "messages" -> JArr(<<msgs[Len(msgs)]>>)
               [] k = "tools" -> tls
               [] k = "temperature" -> cfg.temperature])

RequestJson(cfg, msgs, tls) ==
    JObj([k \in {"model", "max_tokens", "messages", "tools"}
                 \cup (IF cfg.temperature # None THEN {"temperature"} ELSE {}) |->
             CASE k = "model" -> cfg.model
               [] k = "max_tokens" -> cfg.max_tokens
               [] k = "messages" -> JArr(msgs)
               [] k = "tools" -> tls
               [] k = "temperature" -> cfg.temperature])

BuildRequest(cfg, conv) ==
    RequestJson(cfg, ConvertMessagesToOpenai(cfg, conv), MakeToolsJson)

(***************************************************************************)
(* nlohmann::json::parse of a tool call's arguments string.  The strings   *)
(* that are JSON documents are listed with their value; every other string *)
(* is a parse error.                                                       *)
(***************************************************************************)
ArgDocs ==
    ("{\"command\":\"ls\"}" :> JObj([command |-> JStr(<<"ls">>)]))
    @@ ("{\"command\":\"rm f\"}" :> JObj([command |-> JStr(<<"rm f">>)]))
    @@ ("{\"command\":5}" :> JObj([command |-> JInt(5)]))
    @@ ("{}" :> EmptyObj)
    @@ ("5" :> JInt(5))
    @@ ("{\"file_path\":\"f\"}" :> JObj([file_path |-> JStr(PathF)]))
    @@ ("{\"file_path\":\"d/g\",\"offset\":2,\"limit\":1}" :>
            JObj([file_path |-> JStr(PathG), offset |-> JInt(2), limit |-> JInt(1)]))
    @@ ("{\"file_path\":\"d/g\",\"content\":\"ab\"}" :>
            JObj([file_path |-> JStr(PathG), content |-> JStr(<<"a", "b">>)]))
    @@ ("{\"file_path\":\"f\",\"content\":\"\"}" :>
            JObj([file_path |-> JStr(PathF), content |-> JStr(<<>>)]))
    @@ ("{\"file_path\":\"f\",\"old_string\":\"b\",\"new_string\":\"ab\"}" :>
            JObj([file_path |-> JStr(PathF), old_string |-> JStr(<<"b">>),
                  new_string |-> JStr(<<"a", "b">>)]))
    @@ ("{\"file_path\":\"f\",\"old_string\":\"a\",\"new_string\":\"b\"}" :>
            JObj([file_path |-> JStr(PathF), old_string |-> JStr(<<"a">>),
                  new_string |-> JStr(<<"b">>)]))
    @@ ("{\"file_path\":\"f\",\"old_string\":\"aa\",\"new_string\":\"b\"}" :>
            JObj([file_path |-> JStr(PathF), old_string |-> JStr(<<"a", "a">>),
                  new_string |-> JStr(<<"b">>)]))
    @@ ("{\"file_path\":\"f\",\"old_string\":\"\",\"new_string\":\"b\"}" :>
            JObj([file_path |-> JStr(PathF), old_string |-> JStr(<<>>),
                  new_string |-> JStr(<<"b">>)]))

JsonParse(s) ==
    IF Len(s) = 1 /\ s[1] \in DOMAIN ArgDocs
    THEN [ok |-> TRUE, doc |-> ArgDocs[s[1]]]
    ELSE [ok |-> FALSE, doc |-> JNull]

(***************************************************************************)
(* send_api_request: what it returns for the reply r of the transport.     *)
(* r.transport is "ok" or "error"; r.status the HTTP status; r.body the    *)
(* body, which parses to r.body.doc when r.body.parses.                    *)
(***************************************************************************)
ApiError_NoStatus(status, detail) == <<"API error: ">> \o detail

\* make_error("API error ({}): {}", status, detail)
ApiError(status, detail) ==
    <<"API error (">> \o ToStr(status) \o <<"): ">> \o detail

SendApiRequest_ParseErrorBodies(r) ==
    IF r.transport # "ok" THEN [ok |-> FALSE, error |-> r.error, value |-> JNull]
    ELSE IF ~r.body.parses
    THEN [ok |-> FALSE, error |-> <<"Failed to parse response JSON: ">>,
          value |-> JNull]
    ELSE [ok |-> TRUE, error |-> <<>>, value |-> r.body.doc]

SendApiRequest(r) ==
    IF r.transport # "ok" THEN [ok |-> FALSE, error |-> r.error, value |-> JNull]
    ELSE IF r.status # 200
    THEN IF r.body.parses /\ Contains(r.body.doc, "error")
            /\ Contains(r.body.doc.v["error"], "message")
            /\ r.body.doc.v["error"].v["message"].ty = "string"
         THEN [ok |-> FALSE,
               error |-> ApiError(r.status, r.body.doc.v["error"].v["message"].v),
               value |-> JNull]
         ELSE [ok |-> FALSE, error |-> ApiError(r.status, r.body.raw),
               value |-> JNull]
    ELSE IF ~r.body.parses
    THEN [ok |-> FALSE, error |-> <<"Failed to parse response JSON: ">>,
          value |-> JNull]
    ELSE [ok |-> TRUE, error |-> <<>>, value |-> r.body.doc]

(***************************************************************************)
(* parse_response                                                          *)
(***************************************************************************)
\* u.value(key, 0u)
ValueOr0(u, key) == IF Contains(u, key) THEN u.v[key].v ELSE 0

UsageKeys == {"prompt_tokens", "completion_tokens", "total_tokens"}

\* u.value(key, 0u) throws type_error.306 when u is not an object and
\* type_error.302 when the member is there and is not a number
UsageError_Lenient(json) == "ok"

UsageError(json) ==
    IF ~Contains(json, "usage") THEN "ok"
    ELSE IF json.v["usage"].ty # "object" THEN "type_error.306"
    ELSE IF \E key \in UsageKeys :
                Contains(json.v["usage"], key) /\ json.v["usage"].v[key].ty # "int"
    THEN "type_error.302"
    ELSE "ok"

ParseUsage(json) ==
    IF Contains(json, "usage")
    THEN [prompt_tokens |-> ValueOr0(json.v["usage"], "prompt_tokens"),
          completion_tokens |-> ValueOr0(json.v["usage"], "completion_tokens"),
          total_tokens |-> ValueOr0(json.v["usage"], "total_tokens")]
    ELSE None

DisplayLine_NoSeparator(fn) ==
    <<"[Tool call] ">> \o fn.v["name"].v \o fn.v["arguments"].v \o <<"\n">>

\* "[Tool call] " + name + ": " + arguments + "\n"
DisplayLine(fn) ==
    <<"[Tool call] ">> \o fn.v["name"].v \o <<": ">> \o fn.v["arguments"].v
        \o <<"\n">>

RECURSIVE Display(_)
\* display += ... for each tc of message["tool_calls"]
Display(tool_calls) ==
    IF tool_calls = <<>> THEN <<>>
    ELSE DisplayLine(Head(tool_calls).v["function"]) \o Display(Tail(tool_calls))

HasToolCalls_AnyArray(message) == Contains(message, "tool_calls")

HasToolCalls_UnlessText(message) ==
    /\ Contains(message, "tool_calls") /\ ~JEmpty(message.v["tool_calls"])
    /\ ~(Contains(message, "content") /\ message.v["content"].ty = "string"
            /\ message.v["content"].v # <<>>)

HasToolCalls(message) ==
    Contains(message, "tool_calls") /\ ~JEmpty(message.v["tool_calls"])

NoTextContent_AbsentOnly(message) == ~Contains(message, "content")

\* not message.contains("content") or message["content"].is_null()
NoTextContent(message) ==
    ~Contains(message, "content") \/ message.v["content"].ty = "null"

ParseResponse_DisplayFirst(json) ==
    LET message == json.v["choices"].v[1].v["message"]
    IN IF Contains(message, "tool_calls")
       THEN Ok(Display(message.v["tool_calls"].v), ParseUsage(json))
       ELSE Ok(message.v["content"].v, None)

\* a nlohmann::json::exception caught by parse_response
Caught(what) == Err(<<"Failed to parse API response: ", what>>)

ParseResponse(json) ==
    IF ~Contains(json, "choices") \/ JEmpty(json.v["choices"])
    THEN Err(<<"Response missing choices array">>)
    ELSE IF ~Contains(json.v["choices"].v[1], "message")
    THEN Caught("out_of_range.403")
    ELSE LET message == json.v["choices"].v[1].v["message"]
             usage == ParseUsage(json)
         IN IF UsageError(json) # "ok"
            THEN Caught(UsageError(json))
            ELSE IF HasToolCalls(message)
            THEN Ok(Display(message.v["tool_calls"].v), usage)
            ELSE IF NoTextContent(message)
            THEN Err(<<"Response contains no text content">>)
            ELSE IF message.v["content"].ty # "string"
            THEN Caught("type_error.302")
            ELSE Ok(message.v["content"].v, usage)

(***************************************************************************)
(* The environment: what the model, the transport, the operator at the     *)
(* terminal and the operating system may answer.                           *)
(***************************************************************************)
Assistant == JStr(<<"assistant">>)

ToolCall(id, name, arguments) ==
    JObj([id |-> JStr(<<id>>),
          function |-> JObj([name |-> JStr(<<name>>),
                             arguments |-> JStr(<<arguments>>)])])

MsgNull == JObj([role |-> Assistant, content |-> JNull])
MsgNoContent == JObj([role |-> Assistant])
MsgEmpty == JObj([role |-> Assistant, content |-> JStr(<<>>)])
MsgNullEmptyCalls ==
    JObj([role |-> Assistant, content |-> JNull, tool_calls |-> JArr(<<>>)])
MsgText == JObj([role |-> Assistant, content |-> JStr(<<"done">>)])
MsgTextEmptyCalls ==
    JObj([role |-> Assistant, content |-> JStr(<<"done">>),
          tool_calls |-> JArr(<<>>)])
MsgCalls(tcs) ==
    JObj([role |-> Assistant, content |-> JNull, tool_calls |-> JArr(tcs)])
MsgCallsNoContent(tcs) == JObj([role |-> Assistant, tool_calls |-> JArr(tcs)])
MsgCallsText(tcs) ==
    JObj([role |-> Assistant, content |-> JStr(<<"I will look">>),
          tool_calls |-> JArr(tcs)])

\* the tool-call lists the model emits
ToolCallLists ==
    { <<ToolCall("c1", "bash", "{\"command\":\"ls\"}")>>,
      <<ToolCall("c1", "bash", "{\"command\":\"rm f\"}"),
        ToolCall("c2", "read_file", "{\"file_path\":\"f\"}")>>,
      <<ToolCall("c1", "read_file", "{\"file_path\":\"d/g\",\"offset\":2,\"limit\":1}"),
        ToolCall("c2", "list_files", "{}")>>,
      <<ToolCall("c1", "write_file", "{\"file_path\":\"d/g\",\"content\":\"ab\"}"),
        ToolCall("c2", "write_file", "{\"file_path\":\"f\",\"content\":\"\"}")>>,
      <<ToolCall("c1", "edit_file",
                 "{\"file_path\":\"f\",\"old_string\":\"b\",\"new_string\":\"ab\"}"),
        ToolCall("c2", "edit_file",
                 "{\"file_path\":\"f\",\"old_string\":\"a\",\"new_string\":\"b\"}")>>,
      <<ToolCall("c1", "edit_file",
                 "{\"file_path\":\"f\",\"old_string\":\"aa\",\"new_string\":\"b\"}")>>,
      <<ToolCall("c1", "edit_file",
                 "{\"file_path\":\"f\",\"old_string\":\"\",\"new_string\":\"b\"}")>>,
      <<ToolCall("c1", "read_file", "{\"file_path\":\"f\"}"),
        ToolCall("c2", "bash", "{\"command\": ls")>>,
      <<ToolCall("c1", "list_files", "{\"command\": ls"),
        ToolCall("c2", "read_file", "{\"file_path\":\"f\"}")>>,
      <<ToolCall("c1", "bash", "{}")>>,
      <<ToolCall("c1", "write_file", "5")>>,
      <<ToolCall("c1", "bash", "{\"command\":5}")>> }

Body(doc) == [parses |-> TRUE, doc |-> doc, raw |-> <<"<json>">>]
GarbageBody == [parses |-> FALSE, doc |-> JNull, raw |-> <<"<html>">>]

Reply(status, body) ==
    [transport |-> "ok", status |-> status, body |-> body, error |-> <<>>]

Reply200(message) ==
    Reply(200, Body(JObj([choices |-> JArr(<<JObj([message |-> message])>>)])))

Reply200Usage(message, usage) ==
    Reply(200, Body(JObj([choices |-> JArr(<<JObj([message |-> message])>>),
                          usage |-> usage])))

\* replies for which send_api_request returns an error
FailedReplies ==
    { [transport |-> "error", status |-> 0, body |-> GarbageBody,
       error |-> <<"connection refused">>],
      Reply(500, GarbageBody),
      Reply(429, Body(JObj([error |-> JObj([message |-> JStr(<<"rate limited">>)])]))),
      Reply(401, Body(JObj([error |-> JStr(<<"unauthorized">>)]))),
      Reply(400, Body(JObj([error |-> JObj([message |-> JInt(5)])]))),
      Reply(503, Body(JObj([choices |-> JArr(<<JObj([message |-> MsgText])>>)]))),
      Reply(200, GarbageBody) }

\* 200 replies that are JSON without a first choice
NoChoicesReplies ==
    { Reply(200, Body(EmptyObj)),
      Reply(200, Body(JObj([choices |-> JArr(<<>>)]))) }

\* replies whose content is the final answer
TextReplies ==
    { Reply200(MsgText),
      Reply200Usage(MsgTextEmptyCalls, EmptyObj),
      Reply200Usage(MsgText, JObj([prompt_tokens |-> JInt(7),
                                   completion_tokens |-> JInt(2),
                                   total_tokens |-> JInt(9)])),
      Reply200Usage(MsgText, JObj([completion_tokens |-> JInt(2)])),
      Reply200Usage(MsgText, JNull) }

\* replies with neither tool calls nor text
NudgeReplies ==
    { Reply200(MsgNull), Reply200(MsgNoContent), Reply200(MsgEmpty),
      Reply200(MsgNullEmptyCalls) }

ToolCallReplies ==
    { Reply200(MsgCalls(tcs)) : tcs \in ToolCallLists }
    \cup { Reply200(MsgCallsNoContent(<<ToolCall("c1", "bash", "{\"command\":\"ls\"}")>>)),
           Reply200(MsgCallsText(<<ToolCall("c9", "read_file",
                                            "{\"file_path\":\"f\"}")>>)) }

\* round trips at which the model answers freely; at the others it either
\* ends the exchange or returns the null-content message
EventfulRounds == {1, MaxIterations}

RepliesAt(round) ==
    IF round \in EventfulRounds
    THEN FailedReplies \cup NoChoicesReplies \cup TextReplies \cup NudgeReplies
             \cup ToolCallReplies
    ELSE FailedReplies \cup NoChoicesReplies \cup TextReplies \cup {Reply200(MsgNull)}

\* lines the operator may type at a confirmation prompt
Answers == { <<>>, <<"y">>, <<"Y", "e", "s">>, <<"n">>, <<" ", "y">> }

\* outcomes of create_directories, of opening for writing and of writing
IOs == { [mkdir_ok |-> TRUE, open_ok |-> TRUE, write_ok |-> TRUE],
         [mkdir_ok |-> FALSE, open_ok |-> TRUE, write_ok |-> TRUE],
         [mkdir_ok |-> TRUE, open_ok |-> FALSE, write_ok |-> TRUE],
         [mkdir_ok |-> TRUE, open_ok |-> TRUE, write_ok |-> FALSE] }

\* a file of ManyChunks lines of 4095 characters each
BigFile ==
    File([k \in 1..(2 * ManyChunks) |->
             IF k % 2 = 1 THEN "<4095 bytes>" ELSE "\n"])

\* outcomes of popen, of the command's output and of pclose
BashRuns == { [popen_ok |-> TRUE, chunks |-> <<"o", "k", "\n">>, exit |-> 0],
              [popen_ok |-> TRUE, chunks |-> <<>>, exit |-> 1],
              [popen_ok |-> TRUE,
               chunks |-> [k \in 1..ManyChunks |-> "<4095 bytes>"], exit |-> 2],
              [popen_ok |-> FALSE, chunks |-> <<>>, exit |-> 0] }

\* for one call, the environments that differ in what its executor consults:
\* the confirmation line and popen for bash, the confirmation line and the
\* file system calls for write_file and edit_file, nothing for the others
ToolEnvs(name) ==
    LET io0 == [mkdir_ok |-> TRUE, open_ok |-> TRUE, write_ok |-> TRUE]
        run0 == [popen_ok |-> TRUE, chunks |-> <<"o", "k", "\n">>, exit |-> 0]
    IN [answer : IF name \in {<<"bash">>, <<"write_file">>, <<"edit_file">>}
                 THEN Answers ELSE {<<>>},
        io : IF name \in {<<"write_file">>, <<"edit_file">>} THEN IOs ELSE {io0},
        run : IF name = <<"bash">> THEN BashRuns ELSE {run0},
        ub : {"crash"}]

\* the combinations met within an exchange
LoopEnvs ==
    { [answer |-> <<"y">>,
       io |-> [mkdir_ok |-> TRUE, open_ok |-> TRUE, write_ok |-> TRUE],
       run |-> [popen_ok |-> TRUE, chunks |-> <<"o", "k", "\n">>, exit |-> 0],
       ub |-> "crash"],
      [answer |-> <<"n">>,
       io |-> [mkdir_ok |-> TRUE, open_ok |-> TRUE, write_ok |-> TRUE],
       run |-> [popen_ok |-> TRUE, chunks |-> <<"o", "k", "\n">>, exit |-> 0],
       ub |-> "crash"],
      [answer |-> <<>>,
       io |-> [mkdir_ok |-> TRUE, open_ok |-> TRUE, write_ok |-> TRUE],
       run |-> [popen_ok |-> TRUE, chunks |-> <<"o", "k", "\n">>, exit |-> 0],
       ub |-> "throw"],
      [answer |-> <<"Y", "e", "s">>,
       io |-> [mkdir_ok |-> TRUE, open_ok |-> FALSE, write_ok |-> TRUE],
       run |-> [popen_ok |-> FALSE, chunks |-> <<>>, exit |-> 0],
       ub |-> "throw"],
      [answer |-> <<"y", "e", "s">>,
       io |-> [mkdir_ok |-> TRUE, open_ok |-> TRUE, write_ok |-> FALSE],
       run |-> [popen_ok |-> TRUE, chunks |-> <<>>, exit |-> 1],
       ub |-> "crash"] }

\* the entry of tool_log for one dispatched call
LogEntry(id, name, args, env, r, f, d) ==
    [id |-> id, name |-> name, args |-> args, status |-> r.status,
     out |-> r.out, read |-> r.read,
     answer |-> IF r.read = 1 THEN env.answer ELSE <<>>,
     started |-> r.started,
     exit |-> IF r.started # <<>> THEN env.run.exit ELSE -1,
     io |-> IF name \in {<<"write_file">>, <<"edit_file">>} /\ r.read = 1
                  /\ ~Denied(env.answer)
            THEN env.io
            ELSE [mkdir_ok |-> TRUE, open_ok |-> TRUE, write_ok |-> TRUE],
     fs_before |-> f, dirs_before |-> d]

(***************************************************************************)
(* do_send_message                                                         *)
(***************************************************************************)
NoReply == [transport |-> "none", status |-> 0, body |-> GarbageBody, error |-> <<>>]

Config(temperature, system_prompt) ==
    [model |-> JStr(<<"m">>), max_tokens |-> JInt(256),
     temperature |-> temperature, system_prompt |-> system_prompt]

JFloat(x) == [ty |-> "float", v |-> x]

Configs == { Config(None, None),
             Config(JFloat("0.7"), JStr(<<"be brief">>)) }

NoRequest == [ty |-> "none"]

Conversations ==
    { [system_prompt |-> None,
       messages |-> <<[role |-> <<"user">>, content |-> <<"hi">>]>>],
      [system_prompt |-> JStr(<<"be kind">>),
       messages |-> <<[role |-> <<"user">>, content |-> <<"hi">>],
                      [role |-> <<"assistant">>, content |-> <<"hello">>],
                      [role |-> <<"user">>, content |-> <<"more">>]>>] }

InitialFs == [p \in Paths |-> IF p = PathF THEN File(<<"a", "a", "b">>) ELSE NoFile]

Init ==
    /\ pc = "idle"
    /\ i = 0
    /\ messages = <<>>
    /\ resp = NoReply
    /\ tc_idx = 0
    /\ fs = InitialFs
    /\ dirs = {}
    /\ tool_log = <<>>
    /\ requests = 0
    /\ result = NoResult
    /\ config \in Configs
    /\ conversation \in Conversations
    /\ request = NoRequest
    /\ tools = JNull

\* (*result)["choices"][0] on the non-const json: a missing member or element
\* is created as null
Choice0(json) ==
    IF Contains(json, "choices") /\ json.v["choices"].ty = "array"
       /\ Len(json.v["choices"].v) > 0
    THEN json.v["choices"].v[1]
    ELSE JNull

\* message.contains("content") and not message["content"].is_null()
\*     and not message["content"].get<std::string>().empty()
IsFinalText_AllowsEmpty(message) ==
    /\ Contains(message, "content")
    /\ message.v["content"].ty # "null"

IsFinalText(message) ==
    /\ Contains(message, "content")
    /\ message.v["content"].ty # "null"
    /\ message.v["content"].v # <<>>

Nudge ==
    JObj([role |-> JStr(<<"user">>),
          content |-> JStr(<<"Please use your tools or respond with text.">>)])

\* the messages the nudge branch pushes
NudgeMessages_NudgeFirst(message) ==
    <<Nudge>> \o (IF Contains(message, "content") THEN <<message>> ELSE <<>>)

NudgeMessages_Always(message) == <<message, Nudge>>

NudgeMessages(message) ==
    (IF Contains(message, "content") THEN <<message>> ELSE <<>>) \o <<Nudge>>

\* {{"role", "tool"}, {"tool_call_id", tc["id"]}, {"content", output}}
ToolResultMessage_FirstId(tcs, tc, output) ==
    JObj([role |-> JStr(<<"tool">>), tool_call_id |-> tcs[1].v["id"],
          content |-> JStr(output)])

ToolResultMessage_NameAsId(tcs, tc, output) ==
    JObj([role |-> JStr(<<"tool">>), tool_call_id |-> tc.v["function"].v["name"],
          content |-> JStr(output)])

ToolResultMessage(tcs, tc, output) ==
    JObj([role |-> JStr(<<"tool">>), tool_call_id |-> tc.v["id"],
          content |-> JStr(output)])

\* the message of the reply being handled
RespMessage == Choice0(resp.body.doc).v["message"]

StartExchange ==
    /\ pc = "idle"
    /\ messages' = ConvertMessagesToOpenai(config, conversation)
    /\ tools' = MakeToolsJson
    /\ i' = 0
    /\ pc' = "loop"
    /\ UNCHANGED <<resp, tc_idx, fs, dirs, tool_log, requests, result, config,
                   conversation, request>>

\* i < 20: build the request and hand it to send_api_request
SendRequest ==
    /\ pc = "loop"
    /\ i < MaxIterations
    /\ request' = RequestJson(config, messages, tools)
    /\ requests' = requests + 1
    /\ pc' = "awaiting"
    /\ UNCHANGED <<i, messages, resp, tc_idx, fs, dirs, tool_log, result, config,
                   conversation, tools>>

\* the for loop ends: make_error("Agent loop exceeded 20 iterations")
LoopExceeded ==
    /\ pc = "loop"
    /\ ~(i < MaxIterations)
    /\ result' = Err(<<"Agent loop exceeded 20 iterations">>)
    /\ pc' = "done"
    /\ UNCHANGED <<i, messages, resp, tc_idx, fs, dirs, tool_log, requests, config,
                   conversation, request, tools>>

\* if (not result) return make_error("{}", result.error());
RecvFailure ==
    /\ pc = "awaiting"
    /\ \E r \in RepliesAt(requests) :
          /\ ~SendApiRequest(r).ok
          /\ resp' = r
          /\ result' = Err(SendApiRequest(r).error)
    /\ pc' = "done"
    /\ UNCHANGED <<i, messages, tc_idx, fs, dirs, tool_log, requests, config,
                   conversation, request, tools>>

\* choice["message"] on the const reference to a null choice throws
\* nlohmann::json::type_error, which nothing in do_send_message catches
RecvNoChoices ==
    /\ pc = "awaiting"
    /\ \E r \in RepliesAt(requests) :
          /\ SendApiRequest(r).ok
          /\ Choice0(SendApiRequest(r).value).ty # "object"
          /\ resp' = r
    /\ result' = Escaped("exception", "choices")
    /\ pc' = "done"
    /\ UNCHANGED <<i, messages, tc_idx, fs, dirs, tool_log, requests, config,
                   conversation, request, tools>>

RecvToolCalls_DropsCalls ==
    /\ pc = "awaiting"
    /\ \E r \in RepliesAt(requests) :
          /\ SendApiRequest(r).ok
          /\ Choice0(SendApiRequest(r).value).ty = "object"
          /\ HasToolCalls(Choice0(SendApiRequest(r).value).v["message"])
          /\ resp' = r
          /\ messages' = Append(messages, JObj([role |-> Assistant,
                                                content |-> JNull]))
    /\ tc_idx' = 1
    /\ pc' = "tools"
    /\ UNCHANGED <<i, fs, dirs, tool_log, requests, result, config, conversation,
                   request, tools>>

\* tool calls: messages.push_back(message), then the calls one by one
RecvToolCalls ==
    /\ pc = "awaiting"
    /\ \E r \in RepliesAt(requests) :
          /\ SendApiRequest(r).ok
          /\ Choice0(SendApiRequest(r).value).ty = "object"
          /\ HasToolCalls(Choice0(SendApiRequest(r).value).v["message"])
          /\ resp' = r
          /\ messages' = Append(messages,
                                Choice0(SendApiRequest(r).value).v["message"])
    /\ tc_idx' = 1
    /\ pc' = "tools"
    /\ UNCHANGED <<i, fs, dirs, tool_log, requests, result, config, conversation, request, tools>>

\* text content: return parse_response(*result)
RecvText ==
    /\ pc = "awaiting"
    /\ \E r \in RepliesAt(requests) :
          /\ SendApiRequest(r).ok
          /\ Choice0(SendApiRequest(r).value).ty = "object"
          /\ ~HasToolCalls(Choice0(SendApiRequest(r).value).v["message"])
          /\ IsFinalText(Choice0(SendApiRequest(r).value).v["message"])
          /\ resp' = r
          /\ result' = ParseResponse(SendApiRequest(r).value)
    /\ pc' = "done"
    /\ UNCHANGED <<i, messages, tc_idx, fs, dirs, tool_log, requests, config,
                   conversation, request, tools>>

\* empty or null content: nudge the model, end of the loop body, ++i
RecvNudge ==
    /\ pc = "awaiting"
    /\ \E r \in RepliesAt(requests) :
          /\ SendApiRequest(r).ok
          /\ Choice0(SendApiRequest(r).value).ty = "object"
          /\ ~HasToolCalls(Choice0(SendApiRequest(r).value).v["message"])
          /\ ~IsFinalText(Choice0(SendApiRequest(r).value).v["message"])
          /\ resp' = r
          /\ messages' = messages
                 \o NudgeMessages(Choice0(SendApiRequest(r).value).v["message"])
    /\ i' = i + 1
    /\ pc' = "loop"
    /\ UNCHANGED <<tc_idx, fs, dirs, tool_log, requests, result, config,
                   conversation, request, tools>>

\* one pass of   for (auto const & tc : message["tool_calls"])   ; after the
\* last call: continue, ++i
ExecToolCall ==
    /\ pc = "tools"
    /\ LET tcs == RespMessage.v["tool_calls"].v
           tc == tcs[tc_idx]
           name == tc.v["function"].v["name"].v
           parsed == JsonParse(tc.v["function"].v["arguments"].v)
       IN IF ~parsed.ok
          THEN /\ result' = Escaped("exception", "arguments")
               /\ pc' = "done"
               /\ UNCHANGED <<i, messages, tc_idx, fs, dirs, tool_log>>
          ELSE \E env \in LoopEnvs :
                 LET r == DispatchTool(name, parsed.doc, env, fs, dirs)
                 IN /\ tool_log' = Append(tool_log,
                           LogEntry(tc.v["id"].v, name, parsed.doc, env, r, fs, dirs))
                    /\ fs' = r.fs
                    /\ dirs' = r.dirs
                    /\ IF r.status = "ok"
                       THEN /\ messages' = Append(messages,
                                   ToolResultMessage(tcs, tc, r.out))
                            /\ result' = result
                            /\ IF tc_idx = Len(tcs)
                               THEN i' = i + 1 /\ pc' = "loop" /\ tc_idx' = 0
                               ELSE i' = i /\ pc' = "tools" /\ tc_idx' = tc_idx + 1
                       ELSE /\ messages' = messages
                            /\ i' = i
                            /\ tc_idx' = tc_idx
                            /\ IF r.status = "hang"
                               THEN pc' = "hung" /\ result' = result
                               ELSE /\ pc' = "done"
                                    /\ result' = Escaped(IF r.status = "crash"
                                                         THEN "crash"
                                                         ELSE "exception", "tool")
    /\ UNCHANGED <<resp, requests, config, conversation, request, tools>>

StartAgain_KeepsTranscript ==
    /\ pc = "done"
    /\ result.kind \in {"ok", "error", "exception"}
    /\ messages' = messages
    /\ tools' = MakeToolsJson
    /\ i' = 0
    /\ resp' = NoReply
    /\ tc_idx' = 0
    /\ pc' = "again"
    /\ UNCHANGED <<fs, dirs, tool_log, requests, result, config, conversation,
                   request>>

\* do_send_message has returned or thrown and the caller calls it once more
\* with the same Conversation: its locals are made anew
StartAgain ==
    /\ pc = "done"
    /\ result.kind \in {"ok", "error", "exception"}
    /\ messages' = ConvertMessagesToOpenai(config, conversation)
    /\ tools' = MakeToolsJson
    /\ i' = 0
    /\ resp' = NoReply
    /\ tc_idx' = 0
    /\ pc' = "again"
    /\ UNCHANGED <<fs, dirs, tool_log, requests, result, config, conversation,
                   request>>

Next ==
    \/ StartExchange
    \/ SendRequest
    \/ LoopExceeded
    \/ RecvFailure
    \/ RecvNoChoices
    \/ RecvToolCalls
    \/ RecvText
    \/ RecvNudge
    \/ ExecToolCall
    \/ StartAgain

Spec == Init /\ [][Next]_vars

\* do_send_message runs on one thread that is never suspended for ever: as
\* long as a step of it is possible, one is taken
FairSpec == Spec /\ WF_vars(Next)

(***************************************************************************)
(* The executors on their own: one dispatch_tool call on an arbitrary file *)
(* with arbitrary arguments, confirmation line and system outcome.         *)
(***************************************************************************)
Alphabet == {"a", "b"}

Strings(n) == UNION { [1..k -> Alphabet] : k \in 0..n }

\* file contents: letters and line ends
Texts(n) == UNION { [1..k -> Alphabet \cup {"\n"}] : k \in 0..n }

\* the offset and limit arguments of read_file, None when absent
Offsets == {None, JInt(0), JInt(1), JInt(2), JInt(3)}
Limits == {None, JInt(-1), JInt(0), JInt(1), JInt(2)}

ReadArgs(p, offset, limit) ==
    JObj([k \in {"file_path"} \cup (IF offset = None THEN {} ELSE {"offset"})
                 \cup (IF limit = None THEN {} ELSE {"limit"}) |->
             IF k = "file_path" THEN JStr(p)
             ELSE IF k = "offset" THEN offset ELSE limit])

ToolSpecCalls ==
    { [name |-> <<"edit_file">>,
       args |-> JObj([file_path |-> JStr(PathF), old_string |-> JStr(o),
                      new_string |-> JStr(n)])] :
          o \in Strings(MaxOld), n \in {<<>>, <<"b">>, <<"a", "a">>} }
    \cup { [name |-> <<"write_file">>,
            args |-> JObj([file_path |-> JStr(p), content |-> JStr(c)])] :
               p \in Paths,
               c \in {<<>>, <<"a", "b">>, <<"a", "\n", "b">>, <<"\n", "b", "\n">>} }
    \cup { [name |-> <<"read_file">>, args |-> ReadArgs(p, o, l)] :
               p \in Paths, o \in Offsets, l \in Limits }
    \cup { [name |-> <<"bash">>, args |-> JObj([command |-> JStr(c)])] :
               c \in {<<"ls">>, <<"rm f">>} }
    \cup { [name |-> <<"list_files">>, args |-> EmptyObj] }

ToolInit ==
    /\ pc = "tool"
    /\ i = 0
    /\ messages = <<>>
    /\ resp = NoReply
    /\ tc_idx = 0
    /\ fs \in { [p \in Paths |-> IF p = PathF THEN x ELSE NoFile] :
                   x \in {NoFile, BigFile} \cup { File(c) : c \in Texts(MaxLen) } }
    /\ dirs = {}
    /\ tool_log = <<>>
    /\ requests = 0
    /\ result = NoResult
    /\ config = Config(None, None)
    /\ conversation = [system_prompt |-> None, messages |-> <<>>]
    /\ request = NoRequest
    /\ tools = JNull

\* dispatch_tool(name, args), from the call to its return
DispatchStep ==
    /\ pc = "tool"
    /\ \E call \in ToolSpecCalls : \E env \in ToolEnvs(call.name) :
          LET r == DispatchTool(call.name, call.args, env, fs, dirs)
          IN /\ tool_log' = Append(tool_log,
                    LogEntry(<<"c1">>, call.name, call.args, env, r, fs, dirs))
             /\ fs' = r.fs
             /\ dirs' = r.dirs
             /\ pc' = IF r.status = "hang" THEN "hung" ELSE "returned"
    /\ UNCHANGED <<i, messages, resp, tc_idx, requests, result, config,
                   conversation, request, tools>>

\* a write_file call that returned is followed at once by read_file on the
\* same path, without offset and limit
ReadBackStep ==
    /\ pc = "returned"
    /\ Last(tool_log).name = <<"write_file">>
    /\ \E env \in ToolEnvs(<<"read_file">>) :
          LET args == ReadArgs(Last(tool_log).args.v["file_path"].v, None, None)
              r == DispatchTool(<<"read_file">>, args, env, fs, dirs)
          IN /\ tool_log' = Append(tool_log,
                    LogEntry(<<"c2">>, <<"read_file">>, args, env, r, fs, dirs))
             /\ fs' = r.fs
             /\ dirs' = r.dirs
    /\ pc' = "read_back"
    /\ UNCHANGED <<i, messages, resp, tc_idx, requests, result, config,
                   conversation, request, tools>>

ToolNext == DispatchStep \/ ReadBackStep

ToolSpec == ToolInit /\ [][ToolNext]_vars

(***************************************************************************)
(* parse_response and build_request called on their own, as the unit tests *)
(* call them: one call per behaviour, on a response document or on a       *)
(* configuration and a conversation.                                       *)
(***************************************************************************)
\* an object with the members whose value is not None
Members(keys, val) ==
    JObj([k \in { x \in keys : val[x] # None } |-> val[k]])

Message(content, tool_calls) ==
    Members({"role", "content", "tool_calls"},
            [role |-> Assistant, content |-> content, tool_calls |-> tool_calls])

CodecContents == {None, JNull, JStr(<<>>), JStr(<<"done">>), JInt(5)}

CodecToolCalls ==
    {None, JArr(<<>>)} \cup { JArr(tcs) : tcs \in ToolCallLists }

CodecUsages ==
    {None, EmptyObj, JNull,
     JObj([prompt_tokens |-> JInt(7), completion_tokens |-> JInt(2),
           total_tokens |-> JInt(9)]),
     JObj([completion_tokens |-> JInt(2)]),
     JObj([prompt_tokens |-> JStr(<<"7">>), total_tokens |-> JInt(9)])}

CodecChoices ==
    {None, JNull, JArr(<<>>), JArr(<<EmptyObj>>),
     JArr(<<JObj([message |-> MsgText]),
            JObj([message |-> MsgCalls(<<ToolCall("c1", "bash", "{}")>>)])>>)}
    \cup { JArr(<<JObj([message |-> Message(c, t)])>>) :
               c \in CodecContents, t \in CodecToolCalls }

CodecDocs ==
    { Members({"choices", "usage"}, [choices |-> ch, usage |-> u]) :
         ch \in CodecChoices, u \in CodecUsages }

CodecConfigs ==
    { Config(t, p) : t \in {None, JFloat("0.7")},
                     p \in {None, JStr(<<"be brief">>)} }

CodecInit ==
    /\ pc = "codec"
    /\ i = 0
    /\ messages = <<>>
    /\ resp \in { Reply(200, Body(doc)) : doc \in CodecDocs }
    /\ tc_idx = 0
    /\ fs = InitialFs
    /\ dirs = {}
    /\ tool_log = <<>>
    /\ requests = 0
    /\ result = NoResult
    /\ config \in CodecConfigs
    /\ conversation \in Conversations
    /\ request = NoRequest
    /\ tools = JNull

\* parse_response(json)
ParseStep ==
    /\ pc = "codec"
    /\ result' = ParseResponse(resp.body.doc)
    /\ pc' = "parsed"
    /\ UNCHANGED <<i, messages, resp, tc_idx, fs, dirs, tool_log, requests, config,
                   conversation, request, tools>>

\* build_request(conversation)
BuildStep ==
    /\ pc = "codec"
    /\ request' = BuildRequest(config, conversation)
    /\ pc' = "built"
    /\ UNCHANGED <<i, messages, resp, tc_idx, fs, dirs, tool_log, requests, result,
                   config, conversation, tools>>

CodecNext == ParseStep \/ BuildStep

CodecSpec == CodecInit /\ [][CodecNext]_vars

\* the exchanges of do_send_message together with the separate calls of
\* parse_response and build_request
ClientSpec == (Init \/ CodecInit) /\ [][Next \/ CodecNext]_vars

(***************************************************************************)
(* Properties.                                                             *)
(***************************************************************************)
\* the reply is a 200 JSON document with a first choice
Answered(r) ==
    /\ r.transport = "ok" /\ r.status = 200 /\ r.body.parses
    /\ "choices" \in DOMAIN r.body.doc.v
    /\ Len(r.body.doc.v["choices"].v) > 0

MessageOf(r) == r.body.doc.v["choices"].v[1].v["message"]

\* the tool calls of the reply's message, <<>> when it has none
CallsOf(r) ==
    IF Answered(r) /\ "tool_calls" \in DOMAIN MessageOf(r).v
    THEN MessageOf(r).v["tool_calls"].v ELSE <<>>

\* the content of the reply's message is absent, null or empty
Contentless(r) ==
    \/ "content" \notin DOMAIN MessageOf(r).v
    \/ MessageOf(r).v["content"] = JNull
    \/ MessageOf(r).v["content"] = JStr(<<>>)

IsToolResult(m) == m.v["role"] = JStr(<<"tool">>)

\* C1: an exchange sends at most 20 requests, the counter is the number of
\* completed round trips, and an exchange whose 20th reply still carries tool
\* calls or null/empty content ends with the loop-exceeded error.
C1_TwentyRoundTrips ==
    /\ requests <= 20
    /\ pc = "loop" => i = requests
    /\ pc \in {"awaiting", "tools"} => i = requests - 1
    /\ (pc = "done" /\ requests = 20 /\ Answered(resp)
            /\ (CallsOf(resp) # <<>> \/ Contentless(resp)))
       => result = Err(<<"Agent loop exceeded 20 iterations">>)

\* C2: when the request after a tool-call reply of n calls is sent, the
\* transcript ends with exactly n tool-result messages, the k-th carrying the
\* id of the k-th call and the output of the executor run for it.
C2_OneResultPerCall ==
    (pc = "awaiting" /\ requests > 1 /\ CallsOf(resp) # <<>>)
    => LET tcs == CallsOf(resp)
           n == Len(tcs)
           base == Len(messages) - n
           lbase == Len(tool_log) - n
       IN /\ base >= 1 /\ lbase >= 0
          /\ ~IsToolResult(messages[base])
          /\ \A k \in 1..n :
                /\ tool_log[lbase + k].id = tcs[k].v["id"].v
                /\ tool_log[lbase + k].name = tcs[k].v["function"].v["name"].v
                /\ messages[base + k] =
                       JObj([role |-> JStr(<<"tool">>),
                             tool_call_id |-> tcs[k].v["id"],
                             content |-> JStr(tool_log[lbase + k].out)])

\* a request follows a reply of two calls whose results differ
C2_Witness ==
    /\ pc = "awaiting" /\ requests > 1
    /\ Len(CallsOf(resp)) = 2
    /\ Last(messages).v["content"] # messages[Len(messages) - 1].v["content"]
    /\ Last(messages).v["tool_call_id"] = JStr(<<"c2">>)

\* C3: no tool call ends the exchange: whatever the name and the arguments
\* string, the call gets a textual result and do_send_message neither throws
\* nor stops in the executor.
C3_NoToolCallAborts ==
    /\ ~(result.kind \in {"exception", "crash"} /\ result.at \in {"arguments", "tool"})
    /\ pc # "hung"

\* C5: the transcript of every request after the first ends with a
\* tool-result message or with the nudge, never with an assistant message.
C5_TranscriptTail ==
    (pc = "awaiting" /\ requests > 1)
    => (IsToolResult(Last(messages)) \/ Last(messages) = Nudge)

\* a request whose transcript ends with the nudge that followed an assistant
\* message carrying a content field
C5_Witness ==
    /\ pc = "awaiting" /\ requests > 1
    /\ Last(messages) = Nudge
    /\ messages[Len(messages) - 1].v["role"] = Assistant

\* the file system and the directories right after the k-th dispatched call
FsAfter(k) == IF k < Len(tool_log) THEN tool_log[k + 1].fs_before ELSE fs
DirsAfter(k) == IF k < Len(tool_log) THEN tool_log[k + 1].dirs_before ELSE dirs

\* the k-th dispatched call started a command or changed the file system
HadEffect(k) ==
    \/ tool_log[k].started # <<>>
    \/ FsAfter(k) # tool_log[k].fs_before
    \/ DirsAfter(k) # tool_log[k].dirs_before

\* the line is non-empty and starts with y or Y
Affirmative(line) == line # <<>> /\ line[1] \in {"y", "Y"}

\* C4: a tool call starts a shell command or changes a file or a directory
\* only if the confirmation line read for that very call was affirmative.
C4_HumanGate ==
    \A k \in 1..Len(tool_log) :
        HadEffect(k) => (tool_log[k].read = 1 /\ Affirmative(tool_log[k].answer))

\* an approved call that changed the file system is followed, in the same
\* exchange, by a denied call of a gated tool that changed nothing
C4_Witness ==
    \E j, k \in 1..Len(tool_log) :
        /\ j < k
        /\ HadEffect(j) /\ Affirmative(tool_log[j].answer)
        /\ tool_log[k].name \in {<<"bash">>, <<"write_file">>, <<"edit_file">>}
        /\ tool_log[k].read = 1 /\ tool_log[k].answer = <<"n">>
        /\ ~HadEffect(k)

\* the transport failed, or the status is not 200, or the body is not JSON
FailedReply(r) ==
    r.transport = "error" \/ (r.transport = "ok" /\ (r.status # 200 \/ ~r.body.parses))

\* C6: a failed transport call, a non-200 status or a body that is not JSON
\* ends the exchange with an error at once: no request and no tool follows.
C6_FailureIsFinal ==
    /\ [](FailedReply(resp) => (pc = "done" /\ result.kind = "error"))
    /\ [][FailedReply(resp) => (requests' = requests /\ tool_log' = tool_log
                                  /\ result' = result)]_vars

\* a non-200 reply ended an exchange in which a tool had already run
C6_Witness ==
    /\ pc = "done" /\ resp.transport = "ok" /\ resp.status # 200
    /\ requests = 20 /\ tool_log # <<>>

\* the reply has no non-empty tool-call list and a non-empty text content
HasUsage(doc) == "usage" \in DOMAIN doc.v

\* the usage member is an object whose token counts, where present, are numbers
NumericUsage(doc) ==
    /\ doc.v["usage"].ty = "object"
    /\ \A key \in {"prompt_tokens", "completion_tokens", "total_tokens"} :
           key \in DOMAIN doc.v["usage"].v => doc.v["usage"].v[key].ty = "int"

\* usage is absent or an object of numbers
UsableUsage(doc) == HasUsage(doc) => NumericUsage(doc)

TextReply(r) == Answered(r) /\ CallsOf(r) = <<>> /\ ~Contentless(r)

UsageField(u, key) == IF Contains(u, key) THEN u.v[key].v ELSE 0

\* the usage of a reply: none without a usage object, missing counts zero
UsageOf(r) ==
    IF "usage" \in DOMAIN r.body.doc.v
    THEN [prompt_tokens |-> UsageField(r.body.doc.v["usage"], "prompt_tokens"),
          completion_tokens |->
              UsageField(r.body.doc.v["usage"], "completion_tokens"),
          total_tokens |-> UsageField(r.body.doc.v["usage"], "total_tokens")]
    ELSE None

NudgeReply(r) == Answered(r) /\ CallsOf(r) = <<>> /\ Contentless(r)

\* C8: on a reply with neither tool calls nor text the loop appends the
\* assistant message only if it has a content field, then the nudge, and goes
\* on to the next iteration; it neither returns nor runs a tool.
C8_Nudge ==
    [][(pc = "awaiting" /\ pc' # "awaiting" /\ NudgeReply(resp'))
       => /\ messages' = messages
                 \o (IF "content" \in DOMAIN MessageOf(resp').v
                     THEN <<MessageOf(resp')>> ELSE <<>>)
                 \o <<JObj([role |-> JStr(<<"user">>),
                            content |-> JStr(<<"Please use your tools or respond with text.">>)])>>
          /\ pc' = "loop" /\ i' = i + 1
          /\ result' = result /\ tool_log' = tool_log /\ requests' = requests]_vars

\* a message without a content field was answered by the nudge alone
C8_Witness ==
    /\ pc = "loop" /\ NudgeReply(resp)
    /\ "content" \notin DOMAIN MessageOf(resp).v
    /\ Last(messages) = Nudge
    /\ messages[Len(messages) - 1].v["role"] # Assistant

\* the positions at which old_string occurs in contents
Occurrences(contents, old_string) ==
    { p \in 0..(Len(contents) - Len(old_string)) :
         SubSeq(contents, p + 1, p + Len(old_string)) = old_string }

\* the k-th dispatched call is an edit_file on a file that can be opened
IsEdit(k) ==
    /\ tool_log[k].name = <<"edit_file">>
    /\ tool_log[k].fs_before[tool_log[k].args.v["file_path"].v].exists

EditOccurrences(k) ==
    Cardinality(Occurrences(
        tool_log[k].fs_before[tool_log[k].args.v["file_path"].v].data,
        tool_log[k].args.v["old_string"].v))

\* C9: when old_string occurs zero times or at least twice, edit_file returns
\* the not-found or the non-unique error, reads no confirmation line and
\* leaves the file as it was.
C9_UniquenessBeforePrompt ==
    \A k \in 1..Len(tool_log) :
        (IsEdit(k) /\ EditOccurrences(k) # 1)
        => /\ tool_log[k].status = "ok"
           /\ tool_log[k].read = 0
           /\ FsAfter(k) = tool_log[k].fs_before
           /\ tool_log[k].out[1] =
                  (IF EditOccurrences(k) = 0
                   THEN "Error: old_string not found in "
                   ELSE "Error: old_string is not unique in ")

\* C10: the non-unique error reports the number of occurrences of old_string.
C10_ReportedCount ==
    \A k \in 1..Len(tool_log) :
        (IsEdit(k) /\ EditOccurrences(k) >= 2 /\ tool_log[k].status = "ok"
             /\ tool_log[k].out[1] = "Error: old_string is not unique in ")
        => tool_log[k].out =
               <<"Error: old_string is not unique in ">>
                   \o PathStr(tool_log[k].args.v["file_path"].v)
                   \o <<" (found ">> \o ToStr(EditOccurrences(k))
                   \o <<" occurrences)">>

\* C11: an edit_file call whose old_string occurs exactly once and whose
\* confirmation line is a denial returns "Edit skipped by user" and leaves the
\* file, and every other file, exactly as it was before the call.
C11_DeniedEditLeavesFile ==
    \A k \in 1..Len(tool_log) :
        (IsEdit(k) /\ EditOccurrences(k) = 1 /\ tool_log[k].read = 1
             /\ ~Affirmative(tool_log[k].answer))
        => /\ tool_log[k].status = "ok"
           /\ tool_log[k].out = <<"Edit skipped by user">>
           /\ FsAfter(k) = tool_log[k].fs_before
           /\ DirsAfter(k) = tool_log[k].dirs_before

\* a denied edit of "aab", in which "b" occurs once, was dispatched
C11_Witness ==
    \E k \in 1..Len(tool_log) :
        /\ IsEdit(k) /\ EditOccurrences(k) = 1
        /\ tool_log[k].args.v["old_string"].v = <<"b">>
        /\ tool_log[k].read = 1
        /\ tool_log[k].answer = <<"n">>
        /\ tool_log[k].out = <<"Edit skipped by user">>
        /\ FsAfter(k)[PathF] = File(<<"a", "a", "b">>)

\* the message a gated tool returns when the user denies
SkippedMessage(name) ==
    IF name = <<"bash">> THEN <<"Command skipped by user">>
    ELSE IF name = <<"write_file">> THEN <<"Write skipped by user">>
    ELSE <<"Edit skipped by user">>

Gated(k) ==
    /\ tool_log[k].name \in {<<"bash">>, <<"write_file">>, <<"edit_file">>}
    /\ tool_log[k].read = 1

\* C12: for bash, write_file and edit_file alike, the call goes ahead after its
\* confirmation line if and only if the line is non-empty and starts with y or
\* Y; after any other line it returns the skipped message and has no effect.
C12_ApprovalRule ==
    \A k \in 1..Len(tool_log) :
        Gated(k)
        => /\ tool_log[k].status = "ok"
           /\ (tool_log[k].out # SkippedMessage(tool_log[k].name))
                  <=> Affirmative(tool_log[k].answer)
           /\ ~Affirmative(tool_log[k].answer) => ~HadEffect(k)

\* "Yes" let a write go ahead
C12_Witness ==
    \E k \in 1..Len(tool_log) :
        /\ Gated(k)
        /\ tool_log[k].name = <<"write_file">>
        /\ tool_log[k].answer = <<"Y", "e", "s">>
        /\ tool_log[k].out[1] = "Wrote "
        /\ HadEffect(k)

\* the positions of the line ends of a file
Newlines(data) == { p \in 1..Len(data) : data[p] = "\n" }

\* the number of lines: one per line end, and one more for a last line that
\* has no line end
NumLines(data) ==
    Cardinality(Newlines(data))
        + (IF data # <<>> /\ data[Len(data)] # "\n" THEN 1 ELSE 0)

\* the position of the n-th line end, past the end when there is none
NthNewline(data, n) ==
    IF n <= Cardinality(Newlines(data))
    THEN CHOOSE p \in Newlines(data) :
             Cardinality({ q \in Newlines(data) : q <= p }) = n
    ELSE Len(data) + 1

\* the text of line n, 1 <= n <= NumLines(data), without its line end
LineText(data, n) ==
    SubSeq(data, (IF n = 1 THEN 0 ELSE NthNewline(data, n - 1)) + 1,
           NthNewline(data, n) - 1)

\* a line number below 100 right-justified to width 6, a tab, the text, a newline
Rendered(n, text) ==
    (IF n < 10 THEN <<" ", " ", " ", " ", " ", DigitTok[n + 1]>>
     ELSE <<" ", " ", " ", " ", DigitTok[(n \div 10) + 1], DigitTok[(n % 10) + 1]>>)
    \o <<"\t">> \o text \o <<"\n">>

RECURSIVE RenderedLines(_, _, _)
\* the existing lines numbered lo to hi, rendered, in file order
RenderedLines(data, lo, hi) ==
    IF lo > hi \/ lo > NumLines(data) THEN <<>>
    ELSE IF lo < 1 THEN RenderedLines(data, 1, hi)
    ELSE Rendered(lo, LineText(data, lo)) \o RenderedLines(data, lo + 1, hi)

\* the k-th dispatched call is a read_file of a file that can be opened
IsRead(k) ==
    /\ tool_log[k].name = <<"read_file">>
    /\ tool_log[k].fs_before[tool_log[k].args.v["file_path"].v].exists

ReadData(k) == tool_log[k].fs_before[tool_log[k].args.v["file_path"].v].data

ReadOffset(k) ==
    IF Contains(tool_log[k].args, "offset") THEN tool_log[k].args.v["offset"].v
    ELSE 1

\* the last line number the limit allows when reading starts at line lo
ReadUpTo(k, lo) ==
    IF Contains(tool_log[k].args, "limit")
    THEN lo + tool_log[k].args.v["limit"].v - 1
    ELSE NumLines(ReadData(k))

\* the output of the call is below the truncation bound
BelowTruncation(k) == Size(tool_log[k].out) <= TruncLimit

\* C19 as stated: read_file returns exactly the lines numbered o to
\* min(o+l-1, N), each rendered as its number right-justified to width 6, a
\* tab, the text and a newline.
C19_LineRange ==
    \A k \in 1..Len(tool_log) :
        (IsRead(k) /\ BelowTruncation(k))
        => /\ tool_log[k].status = "ok"
           /\ tool_log[k].out =
                  RenderedLines(ReadData(k), ReadOffset(k),
                                ReadUpTo(k, ReadOffset(k)))

\* the first line read: line 1 when the offset is below 1
ReadFrom(k) == IF ReadOffset(k) < 1 THEN 1 ELSE ReadOffset(k)

\* C19: read_file returns exactly the lines numbered max(o,1) to
\* min(max(o,1)+l-1, N), each rendered as its number right-justified to width
\* 6, a tab, the text and a newline; when there is no such line it returns
\* "File is empty or offset is past end".
C19_LineRangeFromFirst ==
    \A k \in 1..Len(tool_log) :
        (IsRead(k) /\ BelowTruncation(k))
        => /\ tool_log[k].status = "ok"
           /\ tool_log[k].read = 0
           /\ FsAfter(k) = tool_log[k].fs_before
           /\ tool_log[k].out =
                  (IF RenderedLines(ReadData(k), ReadFrom(k),
                                    ReadUpTo(k, ReadFrom(k))) = <<>>
                   THEN <<"File is empty or offset is past end">>
                   ELSE RenderedLines(ReadData(k), ReadFrom(k),
                                      ReadUpTo(k, ReadFrom(k))))

\* offset 2 and limit 1 on a file of three lines returned the second line
C19_Witness ==
    \E k \in 1..Len(tool_log) :
        /\ IsRead(k)
        /\ NumLines(ReadData(k)) = 3
        /\ ReadOffset(k) = 2
        /\ Contains(tool_log[k].args, "limit")
        /\ tool_log[k].args.v["limit"].v = 1
        /\ tool_log[k].out = <<" ", " ", " ", " ", " ", "2", "\t", "b", "\n">>

\* an approved write_file that reported success was followed at once by a
\* read_file of the same path without offset and limit
WroteThenRead ==
    /\ pc = "read_back"
    /\ Len(tool_log) = 2
    /\ tool_log[1].name = <<"write_file">>
    /\ tool_log[1].read = 1
    /\ Affirmative(tool_log[1].answer)
    /\ tool_log[1].out[1] = "Wrote "
    /\ tool_log[2].name = <<"read_file">>
    /\ tool_log[2].args = ReadArgs(tool_log[1].args.v["file_path"].v, None, None)

WrittenContent == tool_log[1].args.v["content"].v

ParsedDoc == resp.body.doc

\* the first entry of choices, None when choices is absent, null or empty
FirstChoice(doc) ==
    IF "choices" \notin DOMAIN doc.v THEN None
    ELSE IF doc.v["choices"].ty # "array" \/ doc.v["choices"].v = <<>> THEN None
    ELSE doc.v["choices"].v[1]

\* the tool-call list of a message, empty when the member is absent
CallList(message) ==
    IF "tool_calls" \in DOMAIN message.v THEN message.v["tool_calls"].v ELSE <<>>

\* the text content of a message, None when it is absent or null
TextOf(message) ==
    IF "content" \notin DOMAIN message.v THEN None
    ELSE IF message.v["content"].ty = "null" THEN None
    ELSE message.v["content"]

\* a document with a first choice is well formed when the choice has a message
\* whose content, if any, is a string or null
WellFormedMessage(doc) ==
    FirstChoice(doc) # None
    => /\ "message" \in DOMAIN FirstChoice(doc).v
       /\ TextOf(FirstChoice(doc).v["message"]) # None
              => TextOf(FirstChoice(doc).v["message"]).ty = "string"

\* and its usage, if any, is an object of numbers
WellFormed(doc) ==
    /\ WellFormedMessage(doc)
    /\ FirstChoice(doc) # None => UsableUsage(doc)

\* C13: parse_response returns an error when the response has no choices entry
\* and when the first choice's message has no tool call and no text content;
\* for every other well-formed response it returns a ChatResponse.
C13_ParseErrors ==
    (pc = "parsed" /\ WellFormed(ParsedDoc))
    => IF FirstChoice(ParsedDoc) = None
       THEN result = Err(<<"Response missing choices array">>)
       ELSE IF CallList(FirstChoice(ParsedDoc).v["message"]) = <<>>
               /\ TextOf(FirstChoice(ParsedDoc).v["message"]) = None
       THEN result = Err(<<"Response contains no text content">>)
       ELSE result.kind = "ok"

\* a message with null content and no tool call was parsed to the error
C13_Witness ==
    /\ pc = "parsed"
    /\ FirstChoice(ParsedDoc) = JObj([message |-> MsgNull])
    /\ "usage" \in DOMAIN ParsedDoc.v
    /\ result = Err(<<"Response contains no text content">>)

\* the reply carries a tool_calls member that is an empty array
EmptyCallArray(r) ==
    /\ r # NoReply
    /\ r.transport = "ok" /\ r.status = 200 /\ r.body.parses
    /\ FirstChoice(r.body.doc) # None
    /\ "message" \in DOMAIN FirstChoice(r.body.doc).v
    /\ "tool_calls" \in DOMAIN FirstChoice(r.body.doc).v["message"].v
    /\ FirstChoice(r.body.doc).v["message"].v["tool_calls"] = JArr(<<>>)

RECURSIVE CallLines(_, _)
CallLines(tcs, k) ==
    IF k > Len(tcs) THEN <<>>
    ELSE <<"[Tool call] ">> \o tcs[k].v["function"].v["name"].v \o <<": ">>
         \o tcs[k].v["function"].v["arguments"].v \o <<"\n">>
         \o CallLines(tcs, k + 1)

ToolNames(req) ==
    [k \in 1..Len(req.v["tools"].v) |->
        req.v["tools"].v[k].v["function"].v["name"].v]

FourTools == <<<<"bash">>, <<"read_file">>, <<"write_file">>, <<"edit_file">>>>

C17_SingleBashTool ==
    pc = "built"
    => /\ Len(request.v["tools"].v) = 1
       /\ request.v["tools"].v[1].v["type"] = JStr(<<"function">>)
       /\ request.v["tools"].v[1].v["function"].v["name"] = JStr(<<"bash">>)
       /\ request.v["tools"].v[1].v["function"].v["parameters"].v["required"]
              = JArr(<<JStr(<<"command">>)>>)

KnownTools == {<<"bash">>, <<"read_file">>, <<"write_file">>, <<"edit_file">>}

\* the tool call the loop is at
CurrentCall == CallsOf(resp)[tc_idx]

\* C18: a tool call whose name is none of the four tools gets the result
\* "Error: unknown tool: <name>", reads no confirmation line, changes nothing,
\* and does not end the turn: the loop goes on past it.
C18_UnknownToolReported ==
    /\ \A k \in 1..Len(tool_log) :
          tool_log[k].name \notin KnownTools
          => /\ tool_log[k].status = "ok"
             /\ tool_log[k].out = <<"Error: unknown tool: ">> \o tool_log[k].name
             /\ tool_log[k].read = 0
             /\ ~HadEffect(k)
    /\ (pc \in {"done", "hung"} /\ result.kind \in {"exception", "crash", "none"}
            /\ tc_idx > 0 /\ CallsOf(resp) # <<>>)
       => CurrentCall.v["function"].v["name"].v \in KnownTools

\* a system prompt is available: the override of the configuration or the
\* conversation's own
HasSystemPrompt(cfg, conv) ==
    cfg.system_prompt # None \/ conv.system_prompt # None

SystemText(cfg, conv) ==
    CASE cfg.system_prompt # None -> cfg.system_prompt.v
      [] OTHER -> conv.system_prompt.v

\* the system message, if a prompt is available, then the conversation's
\* messages one-to-one
ExpectedTranscript(cfg, conv) ==
    LET s == IF HasSystemPrompt(cfg, conv) THEN 1 ELSE 0
    IN [k \in 1..(s + Len(conv.messages)) |->
           IF k <= s
           THEN JObj([role |-> JStr(<<"system">>),
                      content |-> JStr(SystemText(cfg, conv))])
           ELSE JObj([role |-> JStr(conv.messages[k - s].role),
                      content |-> JStr(conv.messages[k - s].content)])]

\* C21: the transcript do_send_message starts with, the messages of its first
\* request and the messages of the request build_request returns are the same
\* array: the system message first when a system prompt is available, its text
\* the configuration's override if set and the conversation's prompt otherwise,
\* then the conversation's messages in order.
C21_InitialTranscript ==
    /\ (pc = "loop" /\ requests = 0)
       => messages = ExpectedTranscript(config, conversation)
    /\ (pc = "awaiting" /\ requests = 1)
       => request.v["messages"].v = ExpectedTranscript(config, conversation)
    /\ pc = "built"
       => request.v["messages"].v = ExpectedTranscript(config, conversation)

\* the first request of an exchange whose configuration overrides the
\* conversation's own prompt
C21_Witness ==
    /\ pc = "awaiting" /\ requests = 1
    /\ config.system_prompt = JStr(<<"be brief">>)
    /\ conversation.system_prompt = JStr(<<"be kind">>)
    /\ Len(request.v["messages"].v) = 4
    /\ request.v["messages"].v[1].v["content"] = JStr(<<"be brief">>)
    /\ request.v["messages"].v[3].v["role"] = JStr(<<"assistant">>)

\* C22: no step of do_send_message changes the caller's Conversation, and what
\* the loop appended to its transcript is gone when do_send_message is called
\* again: the later exchange starts from the conversation's messages alone.
C22_ConversationUntouched ==
    /\ [][conversation' = conversation]_vars
    /\ [](pc = "again" => messages = ExpectedTranscript(config, conversation))
    /\ [](\A k \in 1..Len(conversation.messages) :
             conversation.messages[k].role \in {<<"user">>, <<"assistant">>}
             /\ DOMAIN conversation.messages[k] = {"role", "content"})

\* a later exchange starts after one that ran tools and grew its transcript
C22_Witness ==
    /\ pc = "again"
    /\ tool_log # <<>>
    /\ result.kind = "ok"
    /\ messages = ExpectedTranscript(config, conversation)

\* the reply came with a status other than 200
Non200(r) == r.transport = "ok" /\ r.status # 200

\* the status codes of the replies, as text
StatusText(status) ==
    CASE status = 400 -> <<"4", "0", "0">>
      [] status = 401 -> <<"4", "0", "1">>
      [] status = 429 -> <<"4", "2", "9">>
      [] status = 500 -> <<"5", "0", "0">>
      [] status = 503 -> <<"5", "0", "3">>

\* error.message of a JSON body that has it as text, the raw body otherwise
ErrorDetail(body) ==
    IF /\ body.parses
       /\ body.doc.ty = "object" /\ "error" \in DOMAIN body.doc.v
       /\ body.doc.v["error"].ty = "object"
       /\ "message" \in DOMAIN body.doc.v["error"].v
       /\ body.doc.v["error"].v["message"].ty = "string"
    THEN body.doc.v["error"].v["message"].v
    ELSE body.raw

\* C23: a reply with a status other than 200 ends the exchange with the error
\* "API error (<status>): <detail>", the detail being the body's error.message
\* when the body is JSON that has one and the raw body otherwise; the reply
\* adds nothing to the transcript and runs no tool.
C23_Non200IsError ==
    /\ [](Non200(resp)
          => /\ pc = "done"
             /\ result = Err(<<"API error (">> \o StatusText(resp.status)
                                 \o <<"): ">> \o ErrorDetail(resp.body)))
    /\ [][Non200(resp')
          => /\ messages' = messages
             /\ tool_log' = tool_log
             /\ requests' = requests]_vars

\* a 503 reply whose body would be a final answer was turned into the error
\* with the raw body
C23_Witness ==
    /\ Non200(resp)
    /\ resp.status = 503
    /\ resp.body.parses
    /\ result = Err(<<"API error (", "5", "0", "3", "): ", "<json>">>)

\* the reply is a 200 response that is valid JSON without a first choice
NoChoices(r) ==
    /\ r.transport = "ok" /\ r.status = 200 /\ r.body.parses
    /\ r.body.doc.ty = "object"
    /\ FirstChoice(r.body.doc) = None

\* C24: in the loop a 200 response that is valid JSON without a choices entry
\* ends the exchange with an error result of do_send_message; no tool runs and
\* no further request is sent.
C24_NoChoicesIsError ==
    NoChoices(resp) => (pc = "done" /\ result.kind = "error")

\* s is the beginning of t
IsPrefix(s, t) == Len(s) <= Len(t) /\ SubSeq(t, 1, Len(s)) = s

\* C25: on a tool-call turn the assistant message is appended to the
\* transcript as it was received, tool_calls included, before any of its calls
\* runs, and the results of its calls follow it directly.
C25_AssistantMessageFirst ==
    /\ [][(pc = "awaiting" /\ pc' = "tools")
          => /\ messages' = Append(messages, MessageOf(resp'))
             /\ "tool_calls" \in DOMAIN Last(messages').v
             /\ tool_log' = tool_log
             /\ fs' = fs]_vars
    /\ [](pc = "tools"
          => /\ Len(messages) >= tc_idx
             /\ messages[Len(messages) - (tc_idx - 1)] = MessageOf(resp)
             /\ \A j \in 1..(tc_idx - 1) :
                   /\ IsToolResult(messages[Len(messages) - (tc_idx - 1) + j])
                   /\ messages[Len(messages) - (tc_idx - 1) + j].v["tool_call_id"]
                          = CallsOf(resp)[j].v["id"])
    /\ []((pc = "awaiting" /\ requests > 1 /\ CallsOf(resp) # <<>>)
          => messages[Len(messages) - Len(CallsOf(resp))] = MessageOf(resp))

\* the second call of a turn is about to run: the assistant message with its
\* two calls sits before the first call's result
C25_Witness ==
    /\ pc = "tools"
    /\ tc_idx = 2
    /\ Len(CallsOf(resp)) = 2
    /\ messages[Len(messages) - 1].v["tool_calls"] = JArr(CallsOf(resp))
    /\ IsToolResult(Last(messages))

\* C26: within an exchange the transcript only grows: every step leaves the
\* messages so far in place, and the messages of each request begin with all
\* the messages of the request before and hold more.
C26_TranscriptGrows ==
    /\ [][pc' # "again" => IsPrefix(messages, messages')]_vars
    /\ [][(request # NoRequest /\ request' # request)
          => /\ IsPrefix(request.v["messages"].v, request'.v["messages"].v)
             /\ Len(request'.v["messages"].v) > Len(request.v["messages"].v)]_vars

\* the third request, after a tool round and a nudge
C26_Witness ==
    /\ pc = "awaiting"
    /\ requests = 3
    /\ tool_log # <<>>
    /\ Last(request.v["messages"].v) = Nudge
    /\ Len(request.v["messages"].v) >= 5

\* the message carries a non-empty tool-call list and non-empty text
CallsAndText(message) ==
    /\ CallList(message) # <<>>
    /\ TextOf(message) # None
    /\ TextOf(message).ty = "string"
    /\ TextOf(message).v # <<>>

AsksConfirmation(k) ==
    \/ tool_log[k].name \in {<<"bash">>, <<"write_file">>}
    \/ (IsEdit(k) /\ EditOccurrences(k) = 1)

\* C28: every bash call, every write_file call and every edit_file call that
\* passes the uniqueness check reads one confirmation line, and no other call
\* reads one; so the lines read in a turn are as many as these calls, in the
\* order of the calls.
C28_ConfirmationLines ==
    \A k \in 1..Len(tool_log) :
        tool_log[k].read = (IF AsksConfirmation(k) THEN 1 ELSE 0)

Marker == "\n... [truncated at 100KB]"

\* C29: in a result of bash or read_file the part before the truncation marker
\* is at most 100,000 characters long.
C29_TruncatedAt100K ==
    \A k \in 1..Len(tool_log) :
        tool_log[k].name \in {<<"bash">>, <<"read_file">>}
        => \A p \in 1..Len(tool_log[k].out) :
              tool_log[k].out[p] = Marker
              => Size(SubSeq(tool_log[k].out, 1, p - 1)) <= TruncLimit

\* the result ends with "[exit code: <n>]" for a one-digit n
EndsWithExitCode(out) ==
    /\ Len(out) >= 3
    /\ out[Len(out) - 2] = "\n[exit code: "
    /\ \E n \in 0..9 : out[Len(out) - 1] = DigitTok[n + 1]
    /\ out[Len(out)] = "]"

ApprovedBash(k) ==
    /\ tool_log[k].name = <<"bash">>
    /\ tool_log[k].read = 1
    /\ Affirmative(tool_log[k].answer)

\* C30 as stated: every result of an approved bash call ends with
\* "[exit code: <n>]".
C30_ExitCodeAlways ==
    \A k \in 1..Len(tool_log) :
        ApprovedBash(k) => EndsWithExitCode(tool_log[k].out)

\* C30: the result of an approved bash call whose command popen started ends
\* with "[exit code: <n>]", n the exit status of the command, also when the
\* output was truncated; when popen fails the result is
\* "Error: failed to execute command".
C30_ExitCodeWhenStarted ==
    \A k \in 1..Len(tool_log) :
        ApprovedBash(k)
        => IF tool_log[k].started # <<>>
           THEN /\ EndsWithExitCode(tool_log[k].out)
                /\ tool_log[k].out[Len(tool_log[k].out) - 1]
                       = DigitTok[tool_log[k].exit + 1]
           ELSE tool_log[k].out = <<"Error: failed to execute command">>

\* a truncated output, the marker followed by the exit code 2
C30_Witness ==
    \E k \in 1..Len(tool_log) :
        /\ ApprovedBash(k)
        /\ tool_log[k].started # <<>>
        /\ \E p \in 1..Len(tool_log[k].out) : tool_log[k].out[p] = Marker
        /\ SubSeq(tool_log[k].out, Len(tool_log[k].out) - 3, Len(tool_log[k].out))
               = <<Marker, "\n[exit code: ", "2", "]">>


(***************************************************************************)
(* read_file: the empty result                                             *)
(***************************************************************************)
\* the limit argument of the k-th call, IntMax when absent
ReadLimit(k) ==
    IF Contains(tool_log[k].args, "limit") THEN tool_log[k].args.v["limit"].v
    ELSE IntMax

EmptyMessage == <<"File is empty or offset is past end">>

\* C31: read_file on a file that can be opened returns "File is empty or
\* offset is past end" if and only if the file is empty, offset exceeds the
\* number of lines, or limit is zero or negative.
C31_EmptyMessageIff ==
    \A k \in 1..Len(tool_log) :
        IsRead(k) /\ tool_log[k].status = "ok" =>
            (tool_log[k].out = EmptyMessage
                <=> \/ ReadData(k) = <<>>
                    \/ ReadOffset(k) > NumLines(ReadData(k))
                    \/ ReadLimit(k) <= 0)

\* a file with lines read with limit 0 or below, and one read past its end
C31_Witness ==
    /\ pc = "returned"
    /\ IsRead(1)
    /\ tool_log[1].out = EmptyMessage
    /\ ReadData(1) # <<>>
    /\ \/ ReadLimit(1) < 0 /\ ReadOffset(1) <= NumLines(ReadData(1))
       \/ ReadLimit(1) > 0 /\ ReadOffset(1) > NumLines(ReadData(1))


(***************************************************************************)
(* write_file: the successful write                                        *)
(***************************************************************************)
\* the k-th dispatched call is a write_file that went past the confirmation
IsApprovedWrite(k) ==
    /\ tool_log[k].name = <<"write_file">>
    /\ tool_log[k].status = "ok"
    /\ tool_log[k].read = 1
    /\ Affirmative(tool_log[k].answer)

WritePath(k) == tool_log[k].args.v["file_path"].v

WriteContent(k) == tool_log[k].args.v["content"].v

\* directory creation (when there is a parent), open and write all succeed
WriteIOSucceeds(k) ==
    /\ ParentPath(WritePath(k)) = "" \/ tool_log[k].io.mkdir_ok
    /\ tool_log[k].io.open_ok
    /\ tool_log[k].io.write_ok

\* the digits of a length below 100
Digits(n) ==
    IF n < 10 THEN <<DigitTok[n + 1]>>
    ELSE <<DigitTok[(n \div 10) + 1], DigitTok[(n % 10) + 1]>>

\* C32: an approved write_file whose directory creation, open and write all
\* succeed returns "Wrote <n> bytes to <path>", n being the byte length of
\* content, and afterwards the file at path holds exactly content, whatever
\* it held before; no other file changes.
C32_WroteExactly ==
    \A k \in 1..Len(tool_log) :
        IsApprovedWrite(k) /\ WriteIOSucceeds(k) =>
            /\ tool_log[k].out
                   = <<"Wrote ">> \o Digits(Len(WriteContent(k)))
                         \o <<" bytes to ">> \o PathStr(WritePath(k))
            /\ FsAfter(k)[WritePath(k)] = File(WriteContent(k))
            /\ \A q \in Paths \ {WritePath(k)} :
                   FsAfter(k)[q] = tool_log[k].fs_before[q]

\* a file with other content is overwritten by a non-empty content
C32_Witness ==
    /\ pc = "returned"
    /\ IsApprovedWrite(1) /\ WriteIOSucceeds(1)
    /\ tool_log[1].fs_before[WritePath(1)].exists
    /\ tool_log[1].fs_before[WritePath(1)].data # <<>>
    /\ WriteContent(1) # <<>>
    /\ tool_log[1].fs_before[WritePath(1)].data # WriteContent(1)
    /\ tool_log[1].out[1] = "Wrote "


(***************************************************************************)
(* edit_file: the applied edit                                             *)
(***************************************************************************)
\* the k-th dispatched call is an edit_file on a file where old_string occurs
\* exactly once, and it went past the confirmation
IsApprovedEdit(k) ==
    /\ IsEdit(k)
    /\ EditOccurrences(k) = 1
    /\ tool_log[k].status = "ok"
    /\ tool_log[k].read = 1
    /\ Affirmative(tool_log[k].answer)

EditPath(k) == tool_log[k].args.v["file_path"].v
EditOld(k) == tool_log[k].args.v["old_string"].v
EditNew(k) == tool_log[k].args.v["new_string"].v
EditData(k) == tool_log[k].fs_before[EditPath(k)].data

\* the position of the single occurrence, counted from 0
EditAt(k) == CHOOSE p \in Occurrences(EditData(k), EditOld(k)) : TRUE

\* the old content with the occurrence at EditAt(k) replaced by new_string
Edited(k) ==
    SubSeq(EditData(k), 1, EditAt(k)) \o EditNew(k)
        \o SubSeq(EditData(k), EditAt(k) + Len(EditOld(k)) + 1, Len(EditData(k)))

AppliedEdit(k) ==
    /\ tool_log[k].out = <<"Applied edit to ">> \o PathStr(EditPath(k))
    /\ FsAfter(k)[EditPath(k)] = File(Edited(k))

\* C33 as stated: every approved edit_file on a file where old_string occurs
\* exactly once returns "Applied edit to <path>" and leaves the file equal to
\* the old content with that occurrence replaced by new_string.
C33_AppliedWhenApproved ==
    \A k \in 1..Len(tool_log) : IsApprovedEdit(k) => AppliedEdit(k)

\* C33: an approved edit_file on a file where old_string occurs exactly once
\* applies the edit when the file can be opened for writing and the write
\* succeeds; when it cannot be opened the result is "Error: Cannot write
\* file: <path>", and when the write fails it is "Error: Write failed".
C33_AppliedWhenWritten ==
    \A k \in 1..Len(tool_log) :
        IsApprovedEdit(k) =>
            IF ~tool_log[k].io.open_ok
            THEN tool_log[k].out
                     = <<"Error: Cannot write file: ">> \o PathStr(EditPath(k))
            ELSE IF ~tool_log[k].io.write_ok
            THEN tool_log[k].out = <<"Error: Write failed">>
            ELSE AppliedEdit(k)

\* an edit is applied in the middle of a file, new_string containing old_string
C33_Witness ==
    /\ pc = "returned"
    /\ IsApprovedEdit(1)
    /\ tool_log[1].io.open_ok /\ tool_log[1].io.write_ok
    /\ EditAt(1) > 0
    /\ EditAt(1) + Len(EditOld(1)) < Len(EditData(1))
    /\ Occurrences(EditNew(1), EditOld(1)) # {}
    /\ EditNew(1) # EditOld(1)
    /\ tool_log[1].out[1] = "Applied edit to "


(***************************************************************************)
(* parse_response: token usage                                             *)
(***************************************************************************)
\* the document has choices, its message is well formed and has a tool call or
\* text: nothing but usage is left to decide the outcome
ParsesButForUsage(doc) ==
    /\ FirstChoice(doc) # None
    /\ WellFormedMessage(doc)
    /\ \/ CallList(FirstChoice(doc).v["message"]) # <<>>
       \/ TextOf(FirstChoice(doc).v["message"]) # None

\* the count under key, zero when the member is missing
CountOr0(doc, key) ==
    IF key \in DOMAIN doc.v["usage"].v THEN doc.v["usage"].v[key].v ELSE 0

ReportedUsage(doc) ==
    IF HasUsage(doc)
    THEN [prompt_tokens |-> CountOr0(doc, "prompt_tokens"),
          completion_tokens |-> CountOr0(doc, "completion_tokens"),
          total_tokens |-> CountOr0(doc, "total_tokens")]
    ELSE None

\* C34 as stated: parse_response never fails because of usage: a response
\* that parses but for its usage member gives a ChatResponse, with every
\* missing count zero and without usage when the member is absent.
C34_UsageNeverFails ==
    (pc = "parsed" /\ ParsesButForUsage(ParsedDoc))
    => /\ result.kind = "ok"
       /\ result.usage = ReportedUsage(ParsedDoc)

\* C34: a response that parses but for its usage member gives a ChatResponse
\* when usage is absent (no usage is carried) or is an object whose counts are
\* numbers (each missing count is zero); it gives the error "Failed to parse
\* API response: ..." when usage is not an object or a count is not a number.
C34_UsageNumericOrError ==
    (pc = "parsed" /\ ParsesButForUsage(ParsedDoc))
    => IF HasUsage(ParsedDoc) /\ ~NumericUsage(ParsedDoc)
       THEN /\ result.kind = "error"
            /\ result.what[1] = "Failed to parse API response: "
       ELSE /\ result.kind = "ok"
            /\ result.usage = ReportedUsage(ParsedDoc)

\* a usage object with one of its three counts gave that count and two zeros
C34_Witness ==
    /\ pc = "parsed" /\ ParsesButForUsage(ParsedDoc)
    /\ HasUsage(ParsedDoc) /\ NumericUsage(ParsedDoc)
    /\ DOMAIN ParsedDoc.v["usage"].v = {"completion_tokens"}
    /\ result.kind = "ok"
    /\ result.usage = [prompt_tokens |-> 0, completion_tokens |-> 2,
                        total_tokens |-> 0]


(***************************************************************************)
(* edit_file: termination                                                  *)
(***************************************************************************)
\* C35: execute_edit_file terminates for every file content and every
\* old_string, the empty one included: no edit_file call stays in its
\* occurrence-counting loop.
C35_EditTerminates ==
    /\ pc # "hung"
    /\ \A k \in 1..Len(tool_log) :
           tool_log[k].name = <<"edit_file">> => tool_log[k].status # "hang"


(***************************************************************************)
(* write_file and edit_file: results that begin with "Error:"              *)
(***************************************************************************)
\* the first pieces of the results of the two tools that begin with "Error:"
ErrorHeads ==
    {"Error: Cannot create directory: ", "Error: Cannot open file for writing: ",
     "Error: Write failed", "Error: Cannot open file: ",
     "Error: old_string not found in ", "Error: old_string is not unique in ",
     "Error: Cannot write file: "}

ReturnedError(k) ==
    /\ tool_log[k].name \in {<<"write_file">>, <<"edit_file">>}
    /\ tool_log[k].status = "ok"
    /\ tool_log[k].out # <<>>
    /\ tool_log[k].out[1] \in ErrorHeads

\* C39: whenever write_file or edit_file returns a result that begins with
\* "Error:", the target file and the set of existing directories are as they
\* were before the call.
C39_ErrorLeavesNoTrace ==
    \A k \in 1..Len(tool_log) :
        ReturnedError(k) =>
            /\ FsAfter(k)[tool_log[k].args.v["file_path"].v]
                   = tool_log[k].fs_before[tool_log[k].args.v["file_path"].v]
            /\ DirsAfter(k) = tool_log[k].dirs_before


(***************************************************************************)
(* do_send_message: every invocation returns                               *)
(***************************************************************************)
\* the invocation was left by an exception or a crash inside a tool executor
LeftInTool == result.kind \in {"exception", "crash"} /\ result.at = "tool"

\* C36: unless a tool execution does not return, every invocation of
\* do_send_message eventually returns, what it returns is a success or an
\* error, and it has sent at most 20 requests.
C36_EventuallyReturns ==
    /\ [](requests <= MaxIterations)
    /\ [](pc = "done" => (result.kind \in {"ok", "error"} \/ LeftInTool))
    /\ (pc = "idle") ~> (pc \in {"done", "again", "hung"})


(***************************************************************************)
(* Transcripts: every tool result has its call                             *)
(***************************************************************************)
\* the messages of the request sent last
Sent == request.v["messages"].v

\* message j of the transcript is an assistant message with tool calls
IsCallTurn(msgs, j) ==
    /\ msgs[j].v["role"] = Assistant
    /\ "tool_calls" \in DOMAIN msgs[j].v
    /\ msgs[j].v["tool_calls"].v # <<>>

\* C38: in every transcript sent to the model each tool-result message has an
\* assistant message with tool calls before it, with nothing but tool-result
\* messages between the two, and its tool_call_id is the id of one of that
\* message's calls.
C38_ResultsHaveCalls ==
    request # NoRequest =>
        \A k \in 1..Len(Sent) :
            IsToolResult(Sent[k]) =>
                \E j \in 1..(k - 1) :
                    /\ IsCallTurn(Sent, j)
                    /\ \A m \in (j + 1)..k : IsToolResult(Sent[m])
                    /\ \E c \in 1..Len(Sent[j].v["tool_calls"].v) :
                           Sent[k].v["tool_call_id"]
                               = Sent[j].v["tool_calls"].v[c].v["id"]

\* a transcript with a turn of two calls followed by their two results
C38_Witness ==
    /\ request # NoRequest
    /\ \E j \in 1..Len(Sent) :
           /\ j + 2 <= Len(Sent)
           /\ IsCallTurn(Sent, j)
           /\ Len(Sent[j].v["tool_calls"].v) = 2
           /\ IsToolResult(Sent[j + 1]) /\ IsToolResult(Sent[j + 2])
           /\ Sent[j + 1].v["tool_call_id"] # Sent[j + 2].v["tool_call_id"]
           /\ Sent[j + 2].v["tool_call_id"] = Sent[j].v["tool_calls"].v[2].v["id"]


(***************************************************************************)
(* do_send_message: the kinds of result                                    *)
(***************************************************************************)
\* do_send_message has returned a Result
Returned == pc = "done" /\ result.kind \in {"ok", "error"}

\* a success whose text is the non-empty content of the last reply, which
\* carried no tool call
TextSuccess ==
    /\ result.kind = "ok"
    /\ TextReply(resp)
    /\ result.response = MessageOf(resp).v["content"].v
    /\ result.response # <<>>

\* the error of send_api_request for the last reply
TransportError == result.kind = "error" /\ FailedReply(resp)

LoopExceededError == result = Err(<<"Agent loop exceeded 20 iterations">>)

\* parse_response's error for a json exception, on a text reply whose usage is
\* not an object of numbers
UsageParseError ==
    /\ result.kind = "error"
    /\ result.what[1] = "Failed to parse API response: "
    /\ TextReply(resp)
    /\ ~UsableUsage(resp.body.doc)

\* C37 as stated: what do_send_message returns is a success with the
\* non-empty content of the last reply, the error of send_api_request or the
\* loop-exceeded error.
C37_ThreeKinds ==
    Returned => (TextSuccess \/ TransportError \/ LoopExceededError)

\* C37: what do_send_message returns is a success with the non-empty content
\* of the last reply, the error of send_api_request, the loop-exceeded error,
\* or parse_response's "Failed to parse API response" error for a text reply
\* with a malformed usage member; it is never parse_response's missing-choices
\* or no-text-content error.
C37_FourKinds ==
    Returned =>
        /\ \/ TextSuccess /\ UsableUsage(resp.body.doc)
           \/ TransportError
           \/ LoopExceededError
           \/ UsageParseError
        /\ result # Err(<<"Response missing choices array">>)
        /\ result # Err(<<"Response contains no text content">>)

\* after a tool-call turn a text reply with a null usage member was answered
\* by parse_response's error
C37_Witness ==
    /\ Returned
    /\ UsageParseError
    /\ tool_log # <<>>
    /\ MessageOf(resp).v["content"].v # <<>>

====
